---- MODULE Spec2Model ----
(***************************************************************************)
(* AT-command transaction engine of the Telit ME910G1 wrapper              *)
(* (src/modules/csq.py, src/csq.py).                                       *)
(*                                                                         *)
(* Text is modelled at character level: a str (or bytes) value is a        *)
(* sequence of one-character strings, a list of lines is a sequence of     *)
(* such sequences.  The serial link is a FIFO of characters.  The modem    *)
(* hands complete CR LF terminated lines to the host; between two lines    *)
(* it may pause for any length of time.                                    *)
(***************************************************************************)
EXTENDS Integers, Sequences, FiniteSets, TLC

(***************************************************************************)
(* Bounds of the model.                                                    *)
(***************************************************************************)
\* number of time.sleep(wait) ticks followed in one wait loop
MaxPolls == 3
\* number of unsolicited result codes the modem emits in one behaviour
MaxUrc == 1

(***************************************************************************)
(* Program constants, in milliseconds.                                     *)
(***************************************************************************)
\* TelitME910G1.__init__(timeout=0.1)
DefaultTimeout == 100
\* cmd_query(wait=0.1), AT_query(wait=0.1)
WaitInterval == 100
\* diagnostic_test: cmd_query("AT+COPS=?", timeout=60)
ScanTimeout == 60000
\* cmd_query, AT#HTTPRCV branch: self.ser.timeout = 0.5
HttpRcvTimeout == 500
\* await_urc(timeout=3)
UrcTimeout == 3000
\* readlines(5) in cmd_query and await_urc
ReadHint == 5

(***************************************************************************)
(* Characters and the texts that travel over the link.                     *)
(***************************************************************************)
CR == "\r"
LF == "\n"
CRLF == <<CR, LF>>

OK == <<"O", "K">>
ERROR == <<"E", "R", "R", "O", "R">>
NO_CARRIER == <<"N", "O", " ", "C", "A", "R", "R", "I", "E", "R">>
\* +CME ERROR: <cause>, as enabled by +CMEE=2
CME_ERROR == <<"+", "C", "M", "E", " ">> \o ERROR \o <<":", " ", "1", "0">>
\* an error whose cause text happens to contain the letters OK
CME_ERROR_OK == <<"+", "C", "M", "E", " ">> \o ERROR \o <<":", " ", "O", "K">>
\* information lines
INFO_CSQ == <<"+", "C", "S", "Q", ":", " ", "2", "3">>
INFO_CCLK == <<"+", "C", "C", "L", "K">>
\* an information line that contains the letters OK (an operator name)
INFO_OK == <<"+", "C", "O", "P", "S", ":", " ", "T", "O", "K", "Y", "O">>
\* an unsolicited result code
URC_HTTPRING == <<"#", "H", "T", "T", "P", "R", "I", "N", "G">>
\* the data prompt and a body, as AT#HTTPRCV delivers them
HTTP_PROMPT == <<"<", "<", "<">>
HTTP_BODY == <<"h", "i">>

\* the lines of a network survey, AT#CSURV; the entries are cut short
SURVEY_STARTED ==
    <<"N", "e", "t", "w", "o", "r", "k", " ", "s", "u", "r", "v", "e", "y",
      " ", "s", "t", "a", "r", "t", "e", "d", " ", ".", ".", ".">>
SURVEY_ENDED ==
    <<"N", "e", "t", "w", "o", "r", "k", " ", "s", "u", "r", "v", "e", "y",
      " ", "e", "n", "d", "e", "d">>
SURVEY_ENTRY_1 ==
    <<"e", "a", "r", "f", "c", "n", ":", " ", "5", "1", "1", "0", " ", "r",
      "x", "L", "e", "v", ":", " ", "0", " ", "m", "c", "c", ":", " ", "3",
      "1", "1", " ", "m", "n", "c", ":", " ", "4", "8", "0">>
SURVEY_ENTRY_2 ==
    <<"e", "a", "r", "f", "c", "n", ":", " ", "5", "0", "3", "5", " ", "r",
      "x", "L", "e", "v", ":", " ", "0", " ", "m", "c", "c", ":", " ", "3",
      "1", "0", " ", "m", "n", "c", ":", " ", "4", "1", "0">>

\* command lines
CMD_AT == <<"A", "T">>
CMD_HTTPRCV == <<"A", "T", "#", "H", "T", "T", "P", "R", "C", "V", "=", "0">>
CMD_CSURV == <<"a", "t", "#", "c", "s", "u", "r", "v">>

(***************************************************************************)
(* Python str operations.                                                  *)
(***************************************************************************)
\* sub in s
Contains(s, sub) ==
    \E i \in 1..(Len(s) - Len(sub) + 1) : SubSeq(s, i, i + Len(sub) - 1) = sub

\* s.startswith(prefix)
StartsWith(s, prefix) ==
    /\ Len(prefix) <= Len(s)
    /\ SubSeq(s, 1, Len(prefix)) = prefix

\* s.endswith(suffix)
EndsWith(s, suffix) ==
    /\ Len(suffix) <= Len(s)
    /\ SubSeq(s, Len(s) - Len(suffix) + 1, Len(s)) = suffix

\* s.upper(), for the letters that occur in command lines
UpperChar(c) ==
    CASE c = "a" -> "A" [] c = "t" -> "T" [] c = "c" -> "C" [] c = "s" -> "S"
      [] c = "u" -> "U" [] c = "r" -> "R" [] c = "v" -> "V" [] c = "h" -> "H"
      [] c = "p" -> "P" [] c = "o" -> "O" [] OTHER -> c

Upper(s) == [i \in 1..Len(s) |-> UpperChar(s[i])]

\* s.strip(chars): drop leading and trailing characters that are in chars
RECURSIVE LStrip(_, _)
LStrip(s, chars) ==
    IF s # <<>> /\ Head(s) \in chars THEN LStrip(Tail(s), chars) ELSE s

RECURSIVE RStrip(_, _)
RStrip(s, chars) ==
    IF s # <<>> /\ s[Len(s)] \in chars
    THEN RStrip(SubSeq(s, 1, Len(s) - 1), chars)
    ELSE s

Strip(s, chars) == RStrip(LStrip(s, chars), chars)

\* s.replace(old, ''), old non-empty
RECURSIVE RemoveAll(_, _)
RemoveAll(s, old) ==
    IF s = <<>> THEN <<>>
    ELSE IF StartsWith(s, old)
         THEN RemoveAll(SubSeq(s, Len(old) + 1, Len(s)), old)
         ELSE <<Head(s)>> \o RemoveAll(Tail(s), old)

\* ''.join(lines)
RECURSIVE Join(_)
Join(ls) == IF ls = <<>> THEN <<>> ELSE Head(ls) \o Join(Tail(ls))

\* s.rpartition(sep): <<before, sep, after>> around the last occurrence of
\* sep, <<'', '', s>> when sep does not occur
RPartition(s, sep) ==
    LET occ == {i \in 1..(Len(s) - Len(sep) + 1) :
                    SubSeq(s, i, i + Len(sep) - 1) = sep}
    IN  IF occ = {} THEN <<<<>>, <<>>, s>>
        ELSE LET i == CHOOSE k \in occ : \A m \in occ : m <= k
             IN  <<SubSeq(s, 1, i - 1), sep, SubSeq(s, i + Len(sep), Len(s))>>

\* s.split(sep), sep non-empty
RECURSIVE Split(_, _)
Split(s, sep) ==
    LET occ == {i \in 1..(Len(s) - Len(sep) + 1) :
                    SubSeq(s, i, i + Len(sep) - 1) = sep}
    IN  IF occ = {} THEN <<s>>
        ELSE LET i == CHOOSE k \in occ : \A m \in occ : k <= m
             IN  <<SubSeq(s, 1, i - 1)>>
                    \o Split(SubSeq(s, i + Len(sep), Len(s)), sep)

(***************************************************************************)
(* io.TextIOWrapper(newline=""): a line ends after "\r\n", a lone "\r"    *)
(* or a lone "\n"; the terminator stays on the line.                       *)
(***************************************************************************)
\* length of the first complete line of s, 0 when s holds no terminator
LineEnd(s) ==
    LET ends == {i \in 1..Len(s) :
                    \/ s[i] = LF
                    \/ s[i] = CR /\ i < Len(s) /\ s[i + 1] # LF}
    IN  IF ends = {} THEN 0 ELSE CHOOSE k \in ends : \A m \in ends : k <= m

\* the complete lines of s, in order, then the unterminated rest
RECURSIVE SplitLines(_)
SplitLines(s) ==
    IF LineEnd(s) = 0 THEN IF s = <<>> THEN <<>> ELSE <<s>>
    ELSE <<SubSeq(s, 1, LineEnd(s))>>
            \o SplitLines(SubSeq(s, LineEnd(s) + 1, Len(s)))

(***************************************************************************)
(* Python list operations used by cmd_query.                               *)
(***************************************************************************)
\* ls.index(x): position of the first element equal to x
IndexOf(ls, x) == CHOOSE i \in 1..Len(ls) : ls[i] = x /\ \A j \in 1..(i - 1) : ls[j] # x

\* ls.remove(x): drop the first element equal to x
RemoveFirst(ls, x) ==
    SubSeq(ls, 1, IndexOf(ls, x) - 1) \o SubSeq(ls, IndexOf(ls, x) + 1, Len(ls))

\* a slip: the separator line is looked for without its CR
IsBlankLine_LF(line) == line \in {<<LF>>, <<>>}

\* line in {'\r\n', ''}
IsBlankLine(line) == line \in {CRLF, <<>>}

\* for line in response_lines: if line in {'\r\n', ''}: response_lines.remove(line)
\* The list iterator holds position i and moves on by one after every pass,
\* whether or not the pass shortened the list.
RECURSIVE RemoveBlankLoop(_, _)
RemoveBlankLoop(ls, i) ==
    IF i > Len(ls) THEN ls
    ELSE IF IsBlankLine(ls[i])
         THEN RemoveBlankLoop(RemoveFirst(ls, ls[i]), i + 1)
         ELSE RemoveBlankLoop(ls, i + 1)

\* a slip: the line is kept as read
StripLine_Kept(line) == line

\* line.strip('\r\n')
StripLine(line) == Strip(line, {CR, LF})

\* for line in response_lines:
\*     if '\r\n' in line: response_lines[response_lines.index(line)] = line.strip('\r\n')
RECURSIVE StripLoop(_, _)
StripLoop(ls, i) ==
    IF i > Len(ls) THEN ls
    ELSE IF Contains(ls[i], CRLF)
         THEN StripLoop([ls EXCEPT ![IndexOf(ls, ls[i])] = StripLine(ls[i])], i + 1)
         ELSE StripLoop(ls, i + 1)

\* the two cleaning loops of cmd_query
CleanLines(raw) == StripLoop(RemoveBlankLoop(raw, 1), 1)

(***************************************************************************)
(* Result-code tests shared by cmd_query and AT_query.                     *)
(***************************************************************************)
\* if "OK" in result_code
IsOkCode(result_code) == Contains(result_code, OK)

\* elif "ERROR" in result_code
IsErrorCode(result_code) == Contains(result_code, ERROR)

(***************************************************************************)
(* What a call hands back: exc is "none" for a normal return, else the     *)
(* name of the exception raised; kind tells which of str / list holds the  *)
(* returned value ("None" for a bare return).                              *)
(***************************************************************************)
Returned(kind, str, list) ==
    [exc |-> "none", kind |-> kind, str |-> str, list |-> list, msg |-> <<>>]

\* an exception raised by a raise statement of the program, with the
\* message it was built with
RaisedWith(exc, msg) ==
    [exc |-> exc, kind |-> "None", str |-> <<>>, list |-> <<>>, msg |-> msg]

\* an exception raised by the interpreter or the library (IndexError,
\* TypeError, ...): its text is the interpreter's, which says nothing of
\* the command line and is left empty here
Raised(exc) == RaisedWith(exc, <<>>)

Pending ==
    [exc |-> "pending", kind |-> "None", str |-> <<>>, list |-> <<>>, msg |-> <<>>]

(***************************************************************************)
(* The messages of the exceptions the query methods raise.                 *)
(***************************************************************************)
QUOTE == "\""

MSG_COMMAND ==
    <<"C", "o", "m", "m", "a", "n", "d", " ", "\"">>
MSG_RETURNED_RESULT_CODE ==
    <<"\"", " ", "r", "e", "t", "u", "r", "n", "e", "d", " ", "r", "e",
      "s", "u", "l", "t", " ", "c", "o", "d", "e", " ", "\"">>
MSG_RETURNED ==
    <<"\"", " ", "r", "e", "t", "u", "r", "n", "e", "d", " ", "\"">>
MSG_RESULTED_IN_ERROR ==
    <<"\"", " ", "r", "e", "s", "u", "l", "t", "e", "d", " ", "i", "n",
      " ", "e", "r", "r", "o", "r", " ", "\"">>
MSG_NO_RESULT_CODE_FOR ==
    <<"N", "o", " ", "r", "e", "s", "u", "l", "t", " ", "c", "o", "d", "e",
      " ", "d", "e", "t", "e", "c", "t", "e", "d", " ", "f", "o", "r", " ",
      "\"">>
MSG_DID_NOT_SEND ==
    <<"M", "o", "d", "e", "m", " ", "d", "i", "d", " ", "n", "o", "t", " ",
      "s", "e", "n", "d", " ", "r", "e", "s", "u", "l", "t", " ", "c", "o",
      "d", "e", " ", "t", "o", " ", "c", "o", "m", "m", "a", "n", "d", " ",
      "\"">>
MSG_OR_ERROR_READING ==
    <<"\"", ",", " ", "o", "r", " ", "t", "h", "e", "r", "e", " ", "w",
      "a", "s", " ", "a", "n", " ", "e", "r", "r", "o", "r", " ", "r", "e",
      "a", "d", "i", "n", "g", " ", "i", "t">>
MSG_A_TIMEOUT ==
    <<" ", "(", "a", " ", "t", "i", "m", "e", "o", "u", "t", "?", ")">>

\* the characters {AT_commandline} of a string literal that is not an
\* f-string: they stay as written
BRACES_AT_COMMANDLINE ==
    <<"{", "A", "T", "_", "c", "o", "m", "m", "a", "n", "d", "l", "i", "n",
      "e", "}">>

\* f'Command "{AT_commandline}" returned result code "{result_code}"'
cmd_query_error_message(AT_commandline, result_code) ==
    MSG_COMMAND \o AT_commandline \o MSG_RETURNED_RESULT_CODE
        \o result_code \o <<QUOTE>>

\* 'No result code detected for "{AT_commandline}", or there was an error
\* reading it', a plain literal
cmd_query_no_code_message(AT_commandline) ==
    MSG_NO_RESULT_CODE_FOR \o BRACES_AT_COMMANDLINE \o MSG_OR_ERROR_READING

\* src/modules/csq.py: f'Command "{AT_commandline}" returned "{result_code}"'
\* src/csq.py: f'Command "{AT_commandline}" resulted in error "{result_code}"'
AT_query_error_message(AT_commandline, result_code, legacy) ==
    MSG_COMMAND \o AT_commandline
        \o (IF legacy THEN MSG_RESULTED_IN_ERROR ELSE MSG_RETURNED)
        \o result_code \o <<QUOTE>>

\* 'Modem did not send result code to command "{AT_commandline}", or there
\* was an error reading it (a timeout?)': a plain literal in
\* src/modules/csq.py, an f-string in src/csq.py
AT_query_no_code_message(AT_commandline, legacy) ==
    MSG_DID_NOT_SEND
        \o (IF legacy THEN AT_commandline ELSE BRACES_AT_COMMANDLINE)
        \o MSG_OR_ERROR_READING \o MSG_A_TIMEOUT

\* a slip: the first line is taken for the result code
PopFirst(ls) == ls[1]

\* the value of response_lines.pop(): the last line of the list
Pop(ls) == ls[Len(ls)]

\* a slip: the last line is handed back in place of the first
ReturnValue_Last(response_lines, multiline) ==
    IF multiline THEN Returned("list", <<>>, response_lines)
    ELSE IF Len(response_lines) # 0
         THEN Returned("str", response_lines[Len(response_lines)], <<>>)
         ELSE Returned("str", <<>>, <<>>)

\* the return statements of cmd_query: the lines left after the pop, the
\* first of them, or ''
ReturnValue(response_lines, multiline) ==
    IF multiline THEN Returned("list", <<>>, response_lines)
    ELSE IF Len(response_lines) # 0
         THEN Returned("str", response_lines[1], <<>>)
         ELSE Returned("str", <<>>, <<>>)

\* cmd_query from the first cleaning loop to its return
CmdClassify(AT_commandline, raw, multiline) ==
    LET cleaned == CleanLines(raw)
    IN  IF cleaned = <<>> THEN Raised("IndexError")
        ELSE LET result_code == Pop(cleaned)
                 response_lines == SubSeq(cleaned, 1, Len(cleaned) - 1)
             IN  IF IsOkCode(result_code)
                 THEN ReturnValue(response_lines, multiline)
                 ELSE IF IsErrorCode(result_code)
                 THEN RaisedWith("ATCommandError",
                                 cmd_query_error_message(AT_commandline, result_code))
                 ELSE RaisedWith("ModemError",
                                 cmd_query_no_code_message(AT_commandline))

\* cmd_query, AT#HTTPRCV branch: None when the branch falls through to the
\* ordinary cleaning and classification
HttpRcvClassify(AT_commandline, raw, confirm) ==
    LET result_code == RemoveAll(Join(confirm), CRLF)
    IN  IF result_code = OK
        THEN Returned("str", SubSeq(Join(raw), 6, Len(Join(raw))), <<>>)
        ELSE IF IsErrorCode(result_code)
        THEN RaisedWith("ATCommandError",
                        cmd_query_error_message(AT_commandline, result_code))
        ELSE Pending

\* AT_commandline.upper().startswith('AT#HTTPRCV')
IsHttpRcv(AT_commandline) ==
    StartsWith(Upper(AT_commandline), <<"A", "T", "#", "H", "T", "T", "P", "R", "C", "V">>)

\* "#CSURV" in AT_commandline.upper()
IsCsurv(AT_commandline) ==
    Contains(Upper(AT_commandline), <<"#", "C", "S", "U", "R", "V">>)

\* src/csq.py parse_csurv: <<result, result_code>>, result <<>> standing for
\* None or for an empty list (both are falsy to the caller)
parse_csurv_str(AT_response) ==
    LET scan_results == Split(AT_response, CRLF \o CRLF)
        n == Len(scan_results)
    IN  [result |-> IF n - 3 # 0 THEN SubSeq(scan_results, 2, n - 2) ELSE <<>>,
         result_code |-> scan_results[n]]

\* a slip: silent is not looked at
ReturnsResult_Loud(result, silent) == result # <<>>

\* AT_query, "if result and not silent": the result is handed back
ReturnsResult(result, silent) == result # <<>> /\ ~silent

\* AT_query from "response = response.decode" to its return.
\* legacy: src/csq.py (RuntimeError, parse_csurv on the text);
\* otherwise src/modules/csq.py (ATCommandError / ModemError, parse_csurv
\* on a list of lines, which fails on the text it is given).
ATClassify(AT_commandline, response, silent, legacy) ==
    LET parts == RPartition(response, CRLF \o CRLF)
        csurv == parse_csurv_str(response)
        bound == \/ Contains(response, CRLF)
                 \/ IsCsurv(AT_commandline)
        result_code ==
            IF IsCsurv(AT_commandline) THEN csurv.result_code
            ELSE IF Contains(response, CRLF \o CRLF) THEN StripLine(parts[3])
            ELSE StripLine(response)
        result ==
            IF IsCsurv(AT_commandline) THEN <<>>
            ELSE IF Contains(response, CRLF \o CRLF) THEN StripLine(parts[1])
            ELSE <<>>
        errorExc == IF legacy THEN "RuntimeError" ELSE "ATCommandError"
        noCodeExc == IF legacy THEN "RuntimeError" ELSE "ModemError"
    IN  IF IsCsurv(AT_commandline) /\ ~legacy
        THEN IF Len(response) > 2 THEN Raised("TypeError") ELSE Raised("ValueError")
        ELSE IF ~bound THEN Raised("UnboundLocalError")
        ELSE IF IsOkCode(result_code)
             THEN IF IsCsurv(AT_commandline)
                  THEN IF ReturnsResult(csurv.result, silent)
                       THEN Returned("list", <<>>, csurv.result)
                       ELSE Returned("None", <<>>, <<>>)
                  ELSE IF ReturnsResult(result, silent)
                       THEN Returned("str", result, <<>>)
                       ELSE Returned("None", <<>>, <<>>)
             ELSE IF IsErrorCode(result_code)
             THEN RaisedWith(errorExc,
                             AT_query_error_message(AT_commandline, result_code, legacy))
             ELSE RaisedWith(noCodeExc,
                             AT_query_no_code_message(AT_commandline, legacy))

(***************************************************************************)
(* The modem's side of the link.                                           *)
(***************************************************************************)
\* one response line as ATV1 frames it: <CR><LF>text<CR><LF>
Framed(text) == CRLF \o text \o CRLF

RECURSIVE Wire(_)
Wire(texts) == IF texts = <<>> THEN <<>> ELSE Framed(Head(texts)) \o Wire(Tail(texts))

\* what the modem may answer to an ordinary command line: nothing at all,
\* a bare result code, information lines followed by a result code, or
\* more than one result code (a chained command line)
ATResponses ==
    { <<>>,
      <<OK>>,
      <<INFO_CSQ, OK>>,
      <<INFO_CSQ, INFO_CCLK, OK>>,
      <<INFO_OK, OK>>,
      <<ERROR>>,
      <<INFO_CSQ, CME_ERROR>>,
      <<CME_ERROR_OK>>,
      <<NO_CARRIER>>,
      <<OK, ERROR>>,
      <<ERROR, OK>> }

\* what the modem may answer to AT#HTTPRCV: the prompt and the body, then
\* the confirming result code; a server may answer with the body OK
HttpResponses ==
    { <<>>,
      <<HTTP_PROMPT \o HTTP_BODY, OK>>,
      <<HTTP_PROMPT \o HTTP_BODY, ERROR>>,
      <<HTTP_PROMPT \o HTTP_BODY>>,
      <<HTTP_PROMPT \o OK>>,
      <<ERROR>> }

\* what the modem may answer to AT#CSURV besides an error: the survey,
\* with the operators found or with none
CsurvResponses ==
    { <<SURVEY_STARTED, SURVEY_ENTRY_1, SURVEY_ENTRY_2, SURVEY_ENDED, OK>>,
      <<SURVEY_STARTED, SURVEY_ENDED, OK>> }

ResponsesTo(AT_commandline) ==
    IF IsHttpRcv(AT_commandline) THEN HttpResponses
    ELSE IF IsCsurv(AT_commandline) THEN ATResponses \cup CsurvResponses
    ELSE ATResponses

Commands == {CMD_AT, CMD_HTTPRCV, CMD_CSURV}

\* the values callers pass as timeout=: None (0) or an override
TimeoutArgs == {0, ScanTimeout}

(***************************************************************************)
(* State.                                                                  *)
(***************************************************************************)
VARIABLES
    pc,               \* where the caller's single thread stands
    op,               \* the method in progress
    AT_commandline,   \* its command line argument
    timeout,          \* its timeout argument, 0 for None
    flag,             \* its multiline (cmd_query) or silent (AT_query) argument
    ser_timeout,      \* self.ser.timeout
    old_timeout,      \* the local old_timeout, 0 while unbound
    inbuf,            \* serial input buffer; in_waiting is its length
    wire,             \* characters the modem has produced and not yet delivered
    sio_chars,        \* characters read ahead by self.sio and not yet returned
    tx,               \* everything written to the modem, one entry per write
    response_lines,   \* lines returned by readlines()
    confirm_lines,    \* lines returned by readlines(5) in the AT#HTTPRCV branch
    response,         \* AT_query's bytearray; the AT_response argument of a parser
    polls,            \* time.sleep(wait) ticks of the current wait loop
    result,           \* how the call ended
    old_rx,           \* leading characters of sio_chars \o inbuf that reached
                      \* the host before the latest write
    stale_captured,   \* such characters captured by the current call
    read_timed_out,   \* a read of the serial port by the current call ran
                      \* into the read timeout with nothing received
    urcs,             \* unsolicited result codes emitted so far
    locals,           \* arguments and local variables of the routine in
                      \* progress above the query methods, by name
    files,            \* the data files on the traffic counter's mount and
                      \* the lines each holds
    posts,            \* the upload requests made so far, with their outcome
    is_open           \* self.ser.is_open, as the routines of the class and
                      \* their with blocks set it; the query methods neither
                      \* open nor close the port

vars == <<pc, op, AT_commandline, timeout, flag, ser_timeout, old_timeout,
          inbuf, wire, sio_chars, tx, response_lines, confirm_lines, response,
          polls, result, old_rx, stale_captured, read_timed_out, urcs,
          locals, files, posts, is_open>>

\* no routine above the query methods is running
NoLocals == [routine |-> "none"]

in_waiting == Len(inbuf)

Min(a, b) == IF a <= b THEN a ELSE b

Init ==
    /\ pc = "Idle"
    /\ op = "none"
    /\ AT_commandline = <<>>
    /\ timeout = 0
    /\ flag = FALSE
    /\ ser_timeout = DefaultTimeout
    /\ old_timeout = 0
    /\ inbuf = <<>>
    /\ wire = <<>>
    /\ sio_chars = <<>>
    /\ tx = <<>>
    /\ response_lines = <<>>
    /\ confirm_lines = <<>>
    /\ response = <<>>
    /\ polls = 0
    /\ result = Pending
    /\ old_rx = 0
    /\ stale_captured = 0
    /\ read_timed_out = FALSE
    /\ urcs = 0
    /\ locals = NoLocals
    /\ files = <<>>
    /\ posts = <<>>
    /\ is_open = FALSE

(***************************************************************************)
(* sio.readlines(hint) over a serial port with a read timeout.             *)
(***************************************************************************)
\* the lines readlines can hand out of the characters already read ahead:
\* it stops once the lines handed out reach the hint (hint 0: no hint)
RECURSIVE TakeLines(_, _, _)
TakeLines(chars, lines, hint) ==
    IF hint > 0 /\ lines # <<>> /\ Len(Join(lines)) >= hint
    THEN [chars |-> chars, lines |-> lines, done |-> TRUE]
    ELSE IF LineEnd(chars) = 0
         THEN [chars |-> chars, lines |-> lines, done |-> FALSE]
         ELSE TakeLines(SubSeq(chars, LineEnd(chars) + 1, Len(chars)),
                        Append(lines, SubSeq(chars, 1, LineEnd(chars))), hint)

\* one step of readlines: hand out what is read ahead; if that does not end
\* the call, read the serial port once.  The read returns what arrived by
\* the end of the timeout window; an empty read is end of file: it ends an
\* unterminated line, and with no line pending it ends readlines.
ReadStep(lines, hint) ==
    LET ahead == TakeLines(sio_chars, lines, hint)
        chunk == TakeLines(ahead.chars \o inbuf, ahead.lines, hint)
        partial == Append(ahead.lines, ahead.chars)
    IN  IF ahead.done
        THEN [lines |-> ahead.lines, chars |-> ahead.chars, inbuf |-> inbuf,
              done |-> TRUE, timed_out |-> FALSE]
        ELSE IF inbuf # <<>>
        THEN [lines |-> chunk.lines, chars |-> chunk.chars, inbuf |-> <<>>,
              done |-> chunk.done, timed_out |-> FALSE]
        ELSE IF ahead.chars # <<>>
        THEN [lines |-> partial, chars |-> <<>>, inbuf |-> <<>>,
              done |-> hint > 0 /\ Len(Join(partial)) >= hint, timed_out |-> TRUE]
        ELSE [lines |-> ahead.lines, chars |-> <<>>, inbuf |-> <<>>,
              done |-> TRUE, timed_out |-> TRUE]

\* number of characters a ReadStep takes out of sio_chars \o inbuf
Consumed(r) == Len(sio_chars) + Len(inbuf) - Len(r.chars) - Len(r.inbuf)

(***************************************************************************)
(* Steps shared by the query methods.                                      *)
(***************************************************************************)
\* a slip: a method is entered while another has not ended
NoCallInProgress_Always == TRUE

\* the methods are synchronous and the scripts have one thread: a method
\* is entered only when none is being executed
NoCallInProgress == pc = "Idle"

\* if self.ser.in_waiting != 0: self.ser.reset_input_buffer()
FlushInput(buf) == IF Len(buf) # 0 THEN <<>> ELSE buf

\* a slip: the response is read without waiting for it
WaitLoopExits_AtOnce(buf, ticks) == TRUE

\* while self.ser.in_waiting == 0: the loop is left as soon as a character
\* is waiting, however many ticks have been slept
WaitLoopExits(buf, ticks) == Len(buf) # 0

\* while self.ser.in_waiting == 0: time.sleep(wait)
Poll ==
    /\ pc = "AwaitingData"
    /\ ~WaitLoopExits(inbuf, polls)
    /\ polls < MaxPolls
    /\ polls' = polls + 1
    /\ UNCHANGED <<pc, op, AT_commandline, timeout, flag, ser_timeout,
                   old_timeout, inbuf, wire, sio_chars, tx, response_lines,
                   confirm_lines, response, result, old_rx, stale_captured, read_timed_out,
                   urcs>>
    /\ UNCHANGED <<locals, files, posts, is_open>>

\* await_urc has ended and the caller goes on to use the connection.  (A
\* behaviour follows the connection through any number of URC waits and
\* through one command transaction, with which it ends.)
Return ==
    /\ pc = "Done"
    /\ op = "await_urc"
    /\ pc' = "Idle"
    /\ op' = "none"
    /\ AT_commandline' = <<>>
    /\ timeout' = 0
    /\ flag' = FALSE
    /\ old_timeout' = 0
    /\ tx' = <<>>
    /\ response_lines' = <<>>
    /\ confirm_lines' = <<>>
    /\ response' = <<>>
    /\ polls' = 0
    /\ result' = Pending
    /\ read_timed_out' = FALSE
    /\ stale_captured' = 0
    /\ UNCHANGED <<ser_timeout, inbuf, wire, sio_chars, old_rx, urcs>>
    /\ UNCHANGED <<locals, files, posts, is_open>>

(***************************************************************************)
(* cmd_query (src/modules/csq.py).                                         *)
(***************************************************************************)
\* a slip: the command line is ended with CR LF
CommandLineText_CRLF(c) == c \o CRLF

\* AT_commandline+"\r", the text handed to write()
CommandLineText(c) == c \o <<CR>>

\* a slip: the outcome depends on how long the response was waited for
cmd_query_classify_Waited(lines) ==
    IF polls > 0 THEN Raised("ModemError")
    ELSE CmdClassify(AT_commandline, lines, flag)

\* lines 297-345 as the call runs them: on the lines read, for its own
\* command line and mode
cmd_query_classify(lines) == CmdClassify(AT_commandline, lines, flag)

\* lines 251-259: timeout override, flush check, then time.sleep(0.02)
cmd_query_call(c, t, m) ==
    /\ NoCallInProgress
    /\ op' = "cmd_query"
    /\ AT_commandline' = c
    /\ timeout' = t
    /\ flag' = m
    /\ old_timeout' = IF t # 0 THEN ser_timeout ELSE 0
    /\ ser_timeout' = IF t # 0 THEN t ELSE ser_timeout
    /\ inbuf' = FlushInput(inbuf)
    /\ old_rx' = Min(old_rx, Len(sio_chars))
    /\ pc' = "presleep"
    /\ UNCHANGED <<wire, sio_chars, tx, response_lines, confirm_lines,
                   response, polls, result, stale_captured, read_timed_out, urcs>>
    /\ UNCHANGED <<locals, files, posts, is_open>>

\* line 260: self.sio.write(AT_commandline+"\r"); a write on the text
\* wrapper drops the characters it had read ahead; the modem takes the
\* command line and queues its answer
cmd_query_write ==
    /\ pc = "presleep"
    /\ op = "cmd_query"
    /\ tx' = Append(tx, CommandLineText(AT_commandline))
    /\ sio_chars' = <<>>
    /\ \E r \in ResponsesTo(AT_commandline) : wire' = wire \o Wire(r)
    /\ old_rx' = Len(inbuf)
    /\ polls' = 0
    /\ pc' = "AwaitingData"
    /\ UNCHANGED <<op, AT_commandline, timeout, flag, ser_timeout, old_timeout,
                   inbuf, response_lines, confirm_lines, response, result,
                   stale_captured, read_timed_out, urcs>>
    /\ UNCHANGED <<locals, files, posts, is_open>>

\* lines 262-345 without the AT#HTTPRCV branch: leave the wait loop, run
\* readlines() read by read, then clean, classify and return or raise.
\* The timeout override is restored on the normal return only.
cmd_query_readlines ==
    /\ op = "cmd_query"
    /\ \/ pc = "AwaitingData" /\ WaitLoopExits(inbuf, polls)
       \/ pc = "readlines"
    /\ LET r == ReadStep(response_lines, 0)
           stale == Min(Consumed(r), old_rx)
           ended == cmd_query_classify(r.lines)
       IN  /\ response_lines' = r.lines
           /\ sio_chars' = r.chars
           /\ inbuf' = r.inbuf
           /\ stale_captured' = stale_captured + stale
           /\ read_timed_out' = (read_timed_out \/ r.timed_out)
           /\ old_rx' = old_rx - stale
           /\ IF ~r.done
              THEN /\ pc' = "readlines"
                   /\ UNCHANGED <<ser_timeout, old_timeout, result>>
              ELSE IF IsHttpRcv(AT_commandline)
              THEN /\ pc' = "confirm"
                   /\ old_timeout' = ser_timeout
                   /\ ser_timeout' = HttpRcvTimeout
                   /\ UNCHANGED result
              ELSE /\ pc' = "Done"
                   /\ result' = ended
                   /\ ser_timeout' = IF ended.exc = "none" /\ timeout # 0
                                     THEN old_timeout ELSE ser_timeout
                   /\ UNCHANGED old_timeout
    /\ UNCHANGED <<op, AT_commandline, timeout, flag, wire, tx, confirm_lines,
                   response, polls, urcs>>
    /\ UNCHANGED <<locals, files, posts, is_open>>

\* lines 281-295, then 297-345 when the branch falls through:
\* readlines(5) under a 0.5 s timeout, read by read
cmd_query_httprcv ==
    /\ op = "cmd_query"
    /\ pc = "confirm"
    /\ LET r == ReadStep(confirm_lines, ReadHint)
           stale == Min(Consumed(r), old_rx)
           http == HttpRcvClassify(AT_commandline, response_lines, r.lines)
       IN  /\ confirm_lines' = r.lines
           /\ sio_chars' = r.chars
           /\ inbuf' = r.inbuf
           /\ stale_captured' = stale_captured + stale
           /\ read_timed_out' = (read_timed_out \/ r.timed_out)
           /\ old_rx' = old_rx - stale
           /\ IF ~r.done
              THEN UNCHANGED <<pc, ser_timeout, result>>
              ELSE /\ pc' = "Done"
                   /\ ser_timeout' = old_timeout
                   /\ result' = IF http # Pending THEN http
                                ELSE cmd_query_classify(response_lines)
    /\ UNCHANGED <<op, AT_commandline, timeout, flag, old_timeout, wire, tx,
                   response_lines, response, polls, urcs>>
    /\ UNCHANGED <<locals, files, posts, is_open>>

(***************************************************************************)
(* AT_query (src/modules/csq.py, deprecated; src/csq.py, first version).   *)
(***************************************************************************)
\* timeout override, flush check, then time.sleep.  src/csq.py reads
\* self.timeout, an attribute the class does not have, when an override
\* is given.
AT_query_call(c, t, silent, legacy) ==
    /\ NoCallInProgress
    /\ op' = IF legacy THEN "AT_query_legacy" ELSE "AT_query"
    /\ AT_commandline' = c
    /\ timeout' = t
    /\ flag' = silent
    /\ IF legacy /\ t # 0
       THEN /\ pc' = "Done"
            /\ result' = Raised("AttributeError")
            /\ UNCHANGED <<old_timeout, ser_timeout, inbuf, old_rx>>
       ELSE /\ pc' = "presleep"
            /\ old_timeout' = IF t # 0 THEN ser_timeout ELSE 0
            /\ ser_timeout' = IF t # 0 THEN t ELSE ser_timeout
            /\ inbuf' = FlushInput(inbuf)
            /\ old_rx' = Min(old_rx, Len(sio_chars))
            /\ UNCHANGED result
    /\ UNCHANGED <<wire, sio_chars, tx, response_lines, confirm_lines,
                   response, polls, stale_captured, read_timed_out, urcs>>
    /\ UNCHANGED <<locals, files, posts, is_open>>

\* self.ser.write((AT_commandline+"\r").encode("ascii"))
AT_query_write ==
    /\ pc = "presleep"
    /\ op \in {"AT_query", "AT_query_legacy"}
    /\ tx' = Append(tx, CommandLineText(AT_commandline))
    /\ \E r \in ResponsesTo(AT_commandline) : wire' = wire \o Wire(r)
    /\ old_rx' = Len(sio_chars) + Len(inbuf)
    /\ polls' = 0
    /\ pc' = "AwaitingData"
    /\ UNCHANGED <<op, AT_commandline, timeout, flag, ser_timeout, old_timeout,
                   inbuf, sio_chars, response_lines, confirm_lines, response,
                   result, stale_captured, read_timed_out, urcs>>
    /\ UNCHANGED <<locals, files, posts, is_open>>

\* while self.ser.in_waiting != 0: response.extend(self.ser.read(1)),
\* as far as the characters now waiting reach
AT_query_read ==
    /\ op \in {"AT_query", "AT_query_legacy"}
    /\ \/ pc = "AwaitingData" /\ WaitLoopExits(inbuf, polls)
       \/ pc = "at_read" /\ in_waiting # 0
    /\ LET stale == old_rx - Min(old_rx, Len(sio_chars))
       IN  /\ response' = response \o inbuf
           /\ inbuf' = <<>>
           /\ stale_captured' = stale_captured + stale
           /\ old_rx' = old_rx - stale
    /\ UNCHANGED read_timed_out
    /\ pc' = "at_read"
    /\ UNCHANGED <<op, AT_commandline, timeout, flag, ser_timeout, old_timeout,
                   wire, sio_chars, tx, response_lines, confirm_lines, polls,
                   result, urcs>>
    /\ UNCHANGED <<locals, files, posts, is_open>>

\* the read loop finds nothing waiting: restore the timeout, split the
\* response, classify, return or raise
AT_query_finish ==
    /\ op \in {"AT_query", "AT_query_legacy"}
    /\ pc = "at_read"
    /\ in_waiting = 0
    /\ ser_timeout' = IF timeout # 0 THEN old_timeout ELSE ser_timeout
    /\ result' = ATClassify(AT_commandline, response, flag, op = "AT_query_legacy")
    /\ pc' = "Done"
    /\ UNCHANGED <<op, AT_commandline, timeout, flag, old_timeout, inbuf, wire,
                   sio_chars, tx, response_lines, confirm_lines, response,
                   polls, old_rx, stale_captured, read_timed_out, urcs>>
    /\ UNCHANGED <<locals, files, posts, is_open>>

(***************************************************************************)
(* await_urc (src/modules/csq.py).                                         *)
(***************************************************************************)
\* old_timeout = self.ser.timeout; self.ser.timeout = timeout
await_urc_call ==
    /\ NoCallInProgress
    /\ op' = "await_urc"
    /\ old_timeout' = ser_timeout
    /\ ser_timeout' = UrcTimeout
    /\ pc' = "urc_readlines"
    /\ UNCHANGED <<AT_commandline, timeout, flag, inbuf, wire, sio_chars, tx,
                   response_lines, confirm_lines, response, polls, result,
                   old_rx, stale_captured, read_timed_out, urcs>>
    /\ UNCHANGED <<locals, files, posts, is_open>>

\* URC = self.sio.readlines(5)[1].strip('\r\n'), read by read; the timeout
\* is restored after the indexing
await_urc_readlines ==
    /\ op = "await_urc"
    /\ pc = "urc_readlines"
    /\ LET r == ReadStep(response_lines, ReadHint)
           stale == Min(Consumed(r), old_rx)
       IN  /\ response_lines' = r.lines
           /\ sio_chars' = r.chars
           /\ inbuf' = r.inbuf
           /\ old_rx' = old_rx - stale
           /\ read_timed_out' = (read_timed_out \/ r.timed_out)
           /\ IF ~r.done
              THEN UNCHANGED <<pc, ser_timeout, result>>
              ELSE /\ pc' = "Done"
                   /\ IF Len(r.lines) < 2
                      THEN /\ result' = Raised("IndexError")
                           /\ UNCHANGED ser_timeout
                      ELSE /\ result' = Returned("str", StripLine(r.lines[2]), <<>>)
                           /\ ser_timeout' = old_timeout
    /\ UNCHANGED <<op, AT_commandline, timeout, flag, old_timeout, wire, tx,
                   confirm_lines, response, polls, stale_captured, urcs>>
    /\ UNCHANGED <<locals, files, posts, is_open>>

(***************************************************************************)
(* The modem.                                                              *)
(***************************************************************************)
\* the next line the modem produced reaches the host
ModemDeliver ==
    /\ wire # <<>>
    /\ LET n == IF LineEnd(wire) = 0 THEN Len(wire) ELSE LineEnd(wire)
       IN  /\ inbuf' = inbuf \o SubSeq(wire, 1, n)
           /\ wire' = SubSeq(wire, n + 1, Len(wire))
    /\ UNCHANGED <<pc, op, AT_commandline, timeout, flag, ser_timeout,
                   old_timeout, sio_chars, tx, response_lines, confirm_lines,
                   response, polls, result, old_rx, stale_captured, read_timed_out, urcs>>
    /\ UNCHANGED <<locals, files, posts, is_open>>

\* the modem emits an unsolicited result code
ModemUrc ==
    /\ urcs < MaxUrc
    /\ urcs' = urcs + 1
    /\ wire' = wire \o Framed(URC_HTTPRING)
    /\ UNCHANGED <<pc, op, AT_commandline, timeout, flag, ser_timeout,
                   old_timeout, inbuf, sio_chars, tx, response_lines,
                   confirm_lines, response, polls, result, old_rx,
                   stale_captured, read_timed_out>>
    /\ UNCHANGED <<locals, files, posts, is_open>>

Next ==
    \/ \E c \in Commands, t \in TimeoutArgs, m \in BOOLEAN : cmd_query_call(c, t, m)
    \/ cmd_query_write
    \/ cmd_query_readlines
    \/ cmd_query_httprcv
    \/ \E c \in Commands, t \in TimeoutArgs, s \in BOOLEAN, legacy \in BOOLEAN :
            AT_query_call(c, t, s, legacy)
    \/ AT_query_write
    \/ AT_query_read
    \/ AT_query_finish
    \/ await_urc_call
    \/ await_urc_readlines
    \/ Poll
    \/ Return
    \/ ModemDeliver
    \/ ModemUrc

Spec == Init /\ [][Next]_vars

(***************************************************************************)
(* Python conversions used by the response parsers.                        *)
(***************************************************************************)
DIGITS == <<"0", "1", "2", "3", "4", "5", "6", "7", "8", "9">>

IsDigit(c) == \E i \in 1..10 : DIGITS[i] = c

DigitValue(c) == (CHOOSE i \in 1..10 : DIGITS[i] = c) - 1

\* int(s) succeeds: for the texts the parsers meet, which hold no sign,
\* blank or underscore next to digits, s is a non-empty run of digits
IsIntLiteral(s) == s # <<>> /\ \A i \in 1..Len(s) : IsDigit(s[i])

\* int(s)
RECURSIVE IntOf(_)
IntOf(s) ==
    IF s = <<>> THEN 0
    ELSE 10 * IntOf(SubSeq(s, 1, Len(s) - 1)) + DigitValue(s[Len(s)])

\* s[a:b], 0 <= a <= b
Slice(s, a, b) == SubSeq(s, a + 1, Min(b, Len(s)))

\* n written with two, three, four decimal digits
Pad2(n) == <<DIGITS[((n \div 10) % 10) + 1], DIGITS[(n % 10) + 1]>>
Pad3(n) == <<DIGITS[((n \div 100) % 10) + 1]>> \o Pad2(n)
Pad4(n) == <<DIGITS[((n \div 1000) % 10) + 1]>> \o Pad3(n)

IsLeapYear(y) == y % 4 = 0 /\ (y % 100 # 0 \/ y % 400 = 0)

DaysInMonth(y, m) ==
    IF m = 2 THEN (IF IsLeapYear(y) THEN 29 ELSE 28)
    ELSE IF m \in {4, 6, 9, 11} THEN 30 ELSE 31

\* datetime.date(year, month, day) accepts its arguments
IsDate(year, month, day) ==
    /\ year \in 1..9999
    /\ month \in 1..12
    /\ day \in 1..DaysInMonth(year, month)

\* datetime.time(hour, minute, second) accepts its arguments
IsTime(hour, minute, second) ==
    hour \in 0..23 /\ minute \in 0..59 /\ second \in 0..59

\* datetime.date(year, month, day).isoformat()
IsoFormat(year, month, day) ==
    Pad4(year) \o <<"-">> \o Pad2(month) \o <<"-">> \o Pad2(day)

\* datetime.time(hour, minute, second).strftime("%H:%M:%S")
StrfTime(hour, minute, second) ==
    Pad2(hour) \o <<":">> \o Pad2(minute) \o <<":">> \o Pad2(second)

(***************************************************************************)
(* Decoding the modem clock, +CCLK: "yy/MM/dd,hh:mm:ss+zz".                *)
(***************************************************************************)
CCLK_PREFIX ==
    <<"+", "C", "C", "L", "K", ":", " ">>

\* a slip: the century before this one
CENTURY_19 == <<"1", "9">>

\* the "20" put before the two year digits
CENTURY == <<"2", "0">>

\* what a clock decoder hands back: the strings of parse_cclk, or the
\* fields of the datetime objects the scripts build
ClockRaised(exc) ==
    [exc |-> exc, date |-> <<>>, time |-> <<>>, year |-> 0, month |-> 0,
     day |-> 0, hour |-> 0, minute |-> 0, second |-> 0]

ClockStrings(date, time) ==
    [exc |-> "none", date |-> date, time |-> time, year |-> 0, month |-> 0,
     day |-> 0, hour |-> 0, minute |-> 0, second |-> 0]

ClockFields(year, month, day, hour, minute, second) ==
    [exc |-> "none", date |-> <<>>, time |-> <<>>, year |-> year,
     month |-> month, day |-> day, hour |-> hour, minute |-> minute,
     second |-> second]

\* AT_response.replace("+CCLK: ", "").strip('"')
CclkText(AT_response) == Strip(RemoveAll(AT_response, CCLK_PREFIX), {QUOTE})

\* TelitME910G1.parse_cclk
parse_cclk(AT_response) ==
    LET modem_date_time == Split(CclkText(AT_response), <<",">>)
        year == CENTURY \o Slice(modem_date_time[1], 0, 2)
        month == Slice(modem_date_time[1], 3, 5)
        day == Slice(modem_date_time[1], 6, 8)
        hour == Slice(modem_date_time[2], 0, 2)
        minute == Slice(modem_date_time[2], 3, 5)
        second == Slice(modem_date_time[2], 6, 8)
    IN  IF ~(IsIntLiteral(year) /\ IsIntLiteral(month) /\ IsIntLiteral(day))
        THEN ClockRaised("ValueError")
        ELSE IF ~IsDate(IntOf(year), IntOf(month), IntOf(day))
        THEN ClockRaised("ValueError")
        ELSE IF Len(modem_date_time) < 2 THEN ClockRaised("IndexError")
        ELSE IF ~(IsIntLiteral(hour) /\ IsIntLiteral(minute) /\ IsIntLiteral(second))
        THEN ClockRaised("ValueError")
        ELSE IF ~IsTime(IntOf(hour), IntOf(minute), IntOf(second))
        THEN ClockRaised("ValueError")
        ELSE ClockStrings(IsoFormat(IntOf(year), IntOf(month), IntOf(day)),
                          StrfTime(IntOf(hour), IntOf(minute), IntOf(second)))

\* src/scripts/smartpark_data_logger.py: the clock text is cut at fixed
\* positions and handed to datetime.datetime
data_logger_cclk(AT_response) ==
    LET cclk_response == CclkText(AT_response)
        year == Slice(cclk_response, 0, 2)
        month == Slice(cclk_response, 3, 5)
        day == Slice(cclk_response, 6, 8)
        hour == Slice(cclk_response, 9, 11)
        minute == Slice(cclk_response, 12, 14)
        second == Slice(cclk_response, 15, 17)
    IN  IF \E f \in {year, month, day, hour, minute, second} : ~IsIntLiteral(f)
        THEN ClockRaised("ValueError")
        ELSE IF ~(/\ IsDate(IntOf(year), IntOf(month), IntOf(day))
                  /\ IsTime(IntOf(hour), IntOf(minute), IntOf(second)))
        THEN ClockRaised("ValueError")
        ELSE ClockFields(IntOf(year), IntOf(month), IntOf(day),
                         IntOf(hour), IntOf(minute), IntOf(second))

\* src/get_rx_stats.py: the fallback to the network-provided time
get_rx_stats_cclk(AT_response) ==
    LET rtc_date_time == Split(CclkText(AT_response), <<",">>)
        year == Slice(rtc_date_time[1], 0, 2)
        month == Slice(rtc_date_time[1], 3, 5)
        day == Slice(rtc_date_time[1], 6, 8)
        hour == Slice(rtc_date_time[2], 0, 2)
        minute == Slice(rtc_date_time[2], 3, 5)
        second == Slice(rtc_date_time[2], 6, 8)
    IN  IF ~(IsIntLiteral(year) /\ IsIntLiteral(month) /\ IsIntLiteral(day))
        THEN ClockRaised("ValueError")
        ELSE IF ~IsDate(IntOf(year), IntOf(month), IntOf(day))
        THEN ClockRaised("ValueError")
        ELSE IF Len(rtc_date_time) < 2 THEN ClockRaised("IndexError")
        ELSE IF ~(IsIntLiteral(hour) /\ IsIntLiteral(minute) /\ IsIntLiteral(second))
        THEN ClockRaised("ValueError")
        ELSE IF ~IsTime(IntOf(hour), IntOf(minute), IntOf(second))
        THEN ClockRaised("ValueError")
        ELSE ClockFields(IntOf(year), IntOf(month), IntOf(day),
                         IntOf(hour), IntOf(minute), IntOf(second))

(***************************************************************************)
(* Decoding the GNSS position, $GPSACP: <UTC>,<latitude>,<longitude>,      *)
(* <hdop>,<altitude>,<fix>,<cog>,<spkm>,<spkn>,<date>,<nsat>.              *)
(***************************************************************************)
GPSACP_PREFIX ==
    <<"$", "G", "P", "S", "A", "C", "P", ":", " ">>

\* the texts of the no-fix comparison
NOFIX_FIELDS_0 ==
    <<",", ",", ",", ",", ",", "0", ",", ",", ",", ",", ",">>
NOFIX_FIELDS_1 ==
    <<",", ",", ",", ",", ",", "1", ",", ",", ",", ",", ",">>

\* x or y, for str operands: x unless it is empty
StrOr(x, y) == IF x # <<>> THEN x ELSE y

\* a latitude or longitude as parse_gpsacp hands it back: the string
\* 'N/A', or a float.  A float is held exactly, as a whole number of
\* 1/600000 degree (the rounding of the floating-point division is left
\* out).
UnitsPerDegree == 600000

NotAvailable == [na |-> TRUE, num |-> 0]

Degrees(num) == [na |-> FALSE, num |-> num]

\* a slip: the decimal part of the minutes is taken for minutes
DecimalDegrees_Coarse(degrees, minutes, decimal_minutes) ==
    degrees * UnitsPerDegree + (minutes + decimal_minutes) * (UnitsPerDegree \div 60)

\* degrees + minutes/60 + decimal_minutes/10000/60
DecimalDegrees(degrees, minutes, decimal_minutes) ==
    degrees * UnitsPerDegree + minutes * (UnitsPerDegree \div 60)
        + decimal_minutes * (UnitsPerDegree \div 600000)

\* what parse_gpsacp hands back; warned: warnings.warn was called
GnssRaised(exc, warned) ==
    [exc |-> exc, date |-> <<>>, time |-> <<>>, lat |-> NotAvailable,
     lon |-> NotAvailable, warned |-> warned]

GnssTuple(date, time, lat, lon, warned) ==
    [exc |-> "none", date |-> date, time |-> time, lat |-> lat, lon |-> lon,
     warned |-> warned]

\* TelitME910G1.parse_gpsacp; cclk_query is how its call
\* self.cmd_query("AT+CCLK?") ends
parse_gpsacp(AT_response, cclk_query) ==
    LET gnss_values == Split(RemoveAll(AT_response, GPSACP_PREFIX), <<",">>)
        year == CENTURY \o Slice(gnss_values[10], 4, 6)
        month == Slice(gnss_values[10], 2, 4)
        day == Slice(gnss_values[10], 0, 2)
        hour == Slice(gnss_values[1], 0, 2)
        minute == Slice(gnss_values[1], 2, 4)
        second == Slice(gnss_values[1], 4, 6)
        lat_degrees == Slice(gnss_values[2], 0, 2)
        lat_minutes == Slice(gnss_values[2], 2, 4)
        lat_decimal_minutes == Slice(gnss_values[2], 5, 9)
        lon_degrees == Slice(gnss_values[3], 0, 3)
        lon_minutes == Slice(gnss_values[3], 3, 5)
        lon_decimal_minutes == Slice(gnss_values[3], 6, 10)
        lat == DecimalDegrees(IntOf(lat_degrees), IntOf(lat_minutes),
                              IntOf(lat_decimal_minutes))
        lon == DecimalDegrees(IntOf(lon_degrees), IntOf(lon_minutes),
                              IntOf(lon_decimal_minutes))
        clock == parse_cclk(cclk_query.str)
    IN  IF AT_response # StrOr(NOFIX_FIELDS_0, NOFIX_FIELDS_1)
        THEN IF Len(gnss_values) < 10 THEN GnssRaised("IndexError", FALSE)
             ELSE IF ~(IsIntLiteral(year) /\ IsIntLiteral(month) /\ IsIntLiteral(day))
             THEN GnssRaised("ValueError", FALSE)
             ELSE IF ~IsDate(IntOf(year), IntOf(month), IntOf(day))
             THEN GnssRaised("ValueError", FALSE)
             ELSE IF ~(IsIntLiteral(hour) /\ IsIntLiteral(minute) /\ IsIntLiteral(second))
             THEN GnssRaised("ValueError", FALSE)
             ELSE IF ~IsTime(IntOf(hour), IntOf(minute), IntOf(second))
             THEN GnssRaised("ValueError", FALSE)
             ELSE IF \E f \in {lat_degrees, lat_minutes, lat_decimal_minutes,
                               lon_degrees, lon_minutes, lon_decimal_minutes} :
                        ~IsIntLiteral(f)
             THEN GnssRaised("ValueError", FALSE)
             ELSE GnssTuple(
                    IsoFormat(IntOf(year), IntOf(month), IntOf(day)),
                    StrfTime(IntOf(hour), IntOf(minute), IntOf(second)),
                    Degrees(IF gnss_values[2][Len(gnss_values[2])] = "S"
                            THEN 0 - lat ELSE lat),
                    Degrees(IF gnss_values[3][Len(gnss_values[3])] = "W"
                            THEN 0 - lon ELSE lon),
                    FALSE)
        ELSE IF cclk_query.exc # "none" THEN GnssRaised(cclk_query.exc, TRUE)
        ELSE IF clock.exc # "none" THEN GnssRaised(clock.exc, TRUE)
        ELSE GnssTuple(clock.date, clock.time, NotAvailable, NotAvailable, TRUE)

(***************************************************************************)
(* Decoding the selected operator, +COPS: <mode>[,<format>,<oper>,<AcT>].  *)
(***************************************************************************)
COPS_PREFIX ==
    <<"+", "C", "O", "P", "S", ":", " ">>

\* the lines sim_test prints
TEXT_AUTOMATIC ==
    <<"A", "u", "t", "o", "m", "a", "t", "i", "c", " ", "o", "p", "e", "r",
      "a", "t", "o", "r", " ", "s", "e", "l", "e", "c", "t", "i", "o", "n">>
TEXT_MANUAL ==
    <<"M", "a", "n", "u", "a", "l", " ", "o", "p", "e", "r", "a", "t", "o",
      "r", " ", "s", "e", "l", "e", "c", "t", "i", "o", "n">>
TEXT_DEREGISTERED ==
    <<"D", "e", "r", "e", "g", "i", "s", "t", "e", "r", "e", "d", " ", "f",
      "r", "o", "m", " ", "n", "e", "t", "w", "o", "r", "k">>
TEXT_MANUAL_FALLBACK ==
    <<"M", "a", "n", "u", "a", "l", " ", "o", "p", "e", "r", "a", "t", "o",
      "r", " ", "s", "e", "l", "e", "c", "t", "i", "o", "n", ",", " ", "w",
      "i", "t", "h", " ", "a", "u", "t", "o", "m", "a", "t", "i", "c", " ",
      "f", "a", "l", "l", "b", "a", "c", "k">>
TEXT_SELECTED_OPERATOR ==
    <<"S", "e", "l", "e", "c", "t", "e", "d", " ", "o", "p", "e", "r", "a",
      "t", "o", "r", " ", "i", "s", " ">>
TEXT_ON_MODE ==
    <<" ", "o", "n", " ", "m", "o", "d", "e", " ">>
TEXT_GSM ==
    <<"G", "S", "M">>
TEXT_CAT_M1 ==
    <<"C", "A", "T", " ", "M", "-", "1">>
TEXT_NB_IOT ==
    <<"N", "B", "-", "I", "o", "T">>

\* the values of lte_ue_category in the statistics scripts
TEXT_M1 ==
    <<"M", "1">>
TEXT_NB1 ==
    <<"N", "B", "1">>

\* reply.replace("+COPS: ", "").split(sep=",")
CopsValues(reply) == Split(RemoveAll(reply, COPS_PREFIX), <<",">>)

\* sim_test, match cops_mode: the line printed, none for mode 3 and for a
\* mode no case names
ModeLines(cops_mode) ==
    IF cops_mode = <<"0">> THEN <<TEXT_AUTOMATIC>>
    ELSE IF cops_mode = <<"1">> THEN <<TEXT_MANUAL>>
    ELSE IF cops_mode = <<"2">> THEN <<TEXT_DEREGISTERED>>
    ELSE IF cops_mode = <<"4">> THEN <<TEXT_MANUAL_FALLBACK>>
    ELSE <<>>

\* a slip: LTE-M and NB-IoT change places
ActHumanReadable_Swapped(cops_act) ==
    IF cops_act = <<"0">> THEN TEXT_GSM
    ELSE IF cops_act = <<"8">> THEN TEXT_NB_IOT
    ELSE IF cops_act = <<"9">> THEN TEXT_CAT_M1
    ELSE <<>>

\* sim_test, match cops_act: the value bound to cops_act_human_readable,
\* '' standing for a name left unbound because no case matched
ActHumanReadable(cops_act) ==
    IF cops_act = <<"0">> THEN TEXT_GSM
    ELSE IF cops_act = <<"8">> THEN TEXT_CAT_M1
    ELSE IF cops_act = <<"9">> THEN TEXT_NB_IOT
    ELSE <<>>

\* how the operator part of sim_test ends: the lines printed and the
\* locals read from the reply
SimTestEnded(exc, printed, cops_values) ==
    [exc |-> exc, printed |-> printed,
     cops_format |-> IF Len(cops_values) > 1 THEN cops_values[2] ELSE <<>>,
     cops_oper |-> IF Len(cops_values) > 2 THEN cops_values[3] ELSE <<>>,
     cops_act |-> IF Len(cops_values) > 3 THEN cops_values[4] ELSE <<>>]

\* TelitME910G1.sim_test from "# Selected operator" on; reply is what
\* self.cmd_query("AT+COPS?") returned
sim_test_cops(reply) ==
    LET cops_values == CopsValues(reply)
        mode_lines == ModeLines(cops_values[1])
        cops_act_human_readable == ActHumanReadable(cops_values[4])
    IN  IF Len(cops_values) > 1
        THEN IF Len(cops_values) < 4
             THEN SimTestEnded("IndexError", mode_lines, cops_values)
             ELSE IF cops_act_human_readable = <<>>
             THEN SimTestEnded("UnboundLocalError", mode_lines, cops_values)
             ELSE SimTestEnded("none",
                    Append(mode_lines,
                           TEXT_SELECTED_OPERATOR \o cops_values[3]
                               \o TEXT_ON_MODE \o cops_act_human_readable),
                    cops_values)
        ELSE SimTestEnded("none", mode_lines, cops_values)

\* how the operator part of a statistics script ends
RxStatsEnded(exc, name, category) ==
    [exc |-> exc, operator_alphanumeric_name |-> name,
     lte_ue_category |-> category]

\* src/scripts/smartpark_get_rx_stats.py and src/get_rx_stats.py from
\* cops_values on; reply is what modem.AT_query("AT+COPS?") returned.  When
\* no case matches, lte_ue_category stays unbound and the script ends in
\* NameError where it writes the first row.
rx_stats_cops(reply) ==
    LET cops_values == CopsValues(reply)
        name == Strip(cops_values[3], {QUOTE})
    IN  IF Len(cops_values) > 1
        THEN IF Len(cops_values) < 4 THEN RxStatsEnded("IndexError", <<>>, <<>>)
             ELSE IF cops_values[4] = <<"8">> THEN RxStatsEnded("none", name, TEXT_M1)
             ELSE IF cops_values[4] = <<"9">> THEN RxStatsEnded("none", name, TEXT_NB1)
             ELSE RxStatsEnded("NameError", name, <<>>)
        ELSE RxStatsEnded("RuntimeError", <<>>, <<>>)

(***************************************************************************)
(* What the modem answers to AT$GPSACP, AT+CCLK? and AT+COPS?.             *)
(***************************************************************************)
\* UTC times <<hh, mm, ss>>, latitudes <<dd, mm, mmmm, N or S>>,
\* longitudes <<ddd, mm, mmmm, E or W>> and dates <<dd, mm, yy>> of a fix
GnssTimes == {<<2, 30, 0>>, <<23, 59, 59>>}
GnssLatitudes == {<<41, 21, 1234, "N">>, <<41, 21, 1234, "S">>, <<0, 0, 1, "S">>}
GnssLongitudes == {<<71, 5, 5678, "W">>, <<71, 5, 5678, "E">>, <<179, 59, 9999, "W">>}
GnssDates == {<<1, 6, 25>>, <<29, 2, 24>>, <<31, 12, 99>>}

GnssFixes == GnssTimes \X GnssLatitudes \X GnssLongitudes \X GnssDates

\* hdop, altitude, fix, cog, spkm, spkn of a fix
GNSS_MIDDLE_FIELDS ==
    <<",", "1", ".", "2", ",", "3", "5", ".", "0", ",", "3", ",", "0", ".",
      "0", ",", "0", ".", "0", ",", "0", ".", "0", ",">>
GNSS_NSAT ==
    <<",", "0", "7">>

\* the sentence of the fix f = <<time, latitude, longitude, date>>:
\* hhmmss.sss,ddmm.mmmmN,dddmm.mmmmW,...,ddmmyy,nn
GpsacpSentence(f) ==
    GPSACP_PREFIX
        \o Pad2(f[1][1]) \o Pad2(f[1][2]) \o Pad2(f[1][3]) \o <<".", "0", "0", "0", ",">>
        \o Pad2(f[2][1]) \o Pad2(f[2][2]) \o <<".">> \o Pad4(f[2][3]) \o <<f[2][4], ",">>
        \o Pad3(f[3][1]) \o Pad2(f[3][2]) \o <<".">> \o Pad4(f[3][3]) \o <<f[3][4]>>
        \o GNSS_MIDDLE_FIELDS
        \o Pad2(f[4][1]) \o Pad2(f[4][2]) \o Pad2(f[4][3])
        \o GNSS_NSAT

\* the sentences without a fix, as the modem sends them
NoFixSentences ==
    {GPSACP_PREFIX \o NOFIX_FIELDS_0, GPSACP_PREFIX \o NOFIX_FIELDS_1}

\* the arguments parse_gpsacp meets: fix and no-fix sentences, and the
\* no-fix field lists without the prefix
GpsacpArguments ==
    {GpsacpSentence(f) : f \in GnssFixes} \cup NoFixSentences
        \cup {NOFIX_FIELDS_0, NOFIX_FIELDS_1}

\* clock readings: dates <<yy, MM, dd>>, times <<hh, mm, ss>>, and the
\* time-zone suffix, which older firmware leaves out
ClockDates == {<<25, 6, 1>>, <<24, 2, 29>>, <<0, 1, 1>>, <<99, 12, 31>>}
ClockTimes == {<<2, 30, 0>>, <<23, 59, 59>>, <<0, 0, 0>>}
ClockZones == {<<>>, <<"+", "0", "0">>, <<"-", "2", "0">>}

ClockReadings == ClockDates \X ClockTimes \X ClockZones

\* +CCLK: "yy/MM/dd,hh:mm:ss+zz"
CclkResponse(r) ==
    CCLK_PREFIX \o <<QUOTE>>
        \o Pad2(r[1][1]) \o <<"/">> \o Pad2(r[1][2]) \o <<"/">> \o Pad2(r[1][3])
        \o <<",">>
        \o Pad2(r[2][1]) \o <<":">> \o Pad2(r[2][2]) \o <<":">> \o Pad2(r[2][3])
        \o r[3] \o <<QUOTE>>

CclkArguments == {CclkResponse(r) : r \in ClockReadings}

\* how the call self.cmd_query("AT+CCLK?") inside parse_gpsacp may end
CclkQueries ==
    { Returned("str", CclkResponse(<<<<25, 6, 1>>, <<2, 30, 0>>, <<"+", "0", "0">>>>), <<>>),
      Returned("str", <<>>, <<>>),
      RaisedWith("ATCommandError", cmd_query_error_message(CMD_AT, ERROR)) }

\* operator names
VERIZON ==
    <<"V", "e", "r", "i", "z", "o", "n">>
ATT_MOBILE_INC ==
    <<"A", "T", "&", "T", " ", "M", "o", "b", "i", "l", "e", ",", " ", "I",
      "n", "c">>

CopsModes == {<<"0">>, <<"1">>, <<"2">>, <<"4">>}
CopsFormats == {<<"0">>, <<"2">>}
CopsOperators == {VERIZON, ATT_MOBILE_INC}
CopsActs == {<<"0">>, <<"7">>, <<"8">>, <<"9">>}

\* +COPS: <mode>,<format>,"<oper>",<AcT>
CopsReply(mode, format, oper, act) ==
    COPS_PREFIX \o mode \o <<",">> \o format \o <<",", QUOTE>> \o oper
        \o <<QUOTE, ",">> \o act

\* the replies to AT+COPS?: registered, or the mode alone
CopsArguments ==
    {CopsReply(m, f, o, a) : m \in CopsModes, f \in CopsFormats,
                             o \in CopsOperators, a \in CopsActs}
        \cup {COPS_PREFIX \o m : m \in {<<"0">>, <<"2">>}}

(***************************************************************************)
(* The response parsers applied to what the modem answered.  The           *)
(* connection is as constructed; op names the parser, response holds its   *)
(* argument and result what it handed back.                                *)
(***************************************************************************)
ClockDecoders == {"parse_cclk", "data_logger_cclk", "get_rx_stats_cclk"}

CopsDecoders == {"sim_test_cops", "rx_stats_cops"}

ArgumentsOf(parser) ==
    IF parser = "parse_gpsacp" THEN GpsacpArguments
    ELSE IF parser \in ClockDecoders THEN CclkArguments
    ELSE CopsArguments

InitParse ==
    /\ pc = "Idle"
    /\ op \in {"parse_gpsacp"} \cup ClockDecoders \cup CopsDecoders
    /\ response \in ArgumentsOf(op)
    /\ result = Pending
    /\ AT_commandline = <<>>
    /\ timeout = 0
    /\ flag = FALSE
    /\ ser_timeout = DefaultTimeout
    /\ old_timeout = 0
    /\ inbuf = <<>>
    /\ wire = <<>>
    /\ sio_chars = <<>>
    /\ tx = <<>>
    /\ response_lines = <<>>
    /\ confirm_lines = <<>>
    /\ polls = 0
    /\ old_rx = 0
    /\ stale_captured = 0
    /\ read_timed_out = FALSE
    /\ urcs = 0
    /\ locals = NoLocals
    /\ files = <<>>
    /\ posts = <<>>
    /\ is_open = FALSE

\* what a parser leaves alone
connection ==
    <<op, AT_commandline, timeout, flag, ser_timeout, old_timeout, inbuf,
      wire, sio_chars, tx, response_lines, confirm_lines, response, polls,
      old_rx, stale_captured, read_timed_out, urcs, locals, files, posts,
      is_open>>

parse_gpsacp_call ==
    /\ pc = "Idle"
    /\ op = "parse_gpsacp"
    /\ \E cclk_query \in CclkQueries : result' = parse_gpsacp(response, cclk_query)
    /\ pc' = "Done"
    /\ UNCHANGED connection

parse_cclk_call ==
    /\ pc = "Idle"
    /\ op = "parse_cclk"
    /\ result' = parse_cclk(response)
    /\ pc' = "Done"
    /\ UNCHANGED connection

data_logger_cclk_call ==
    /\ pc = "Idle"
    /\ op = "data_logger_cclk"
    /\ result' = data_logger_cclk(response)
    /\ pc' = "Done"
    /\ UNCHANGED connection

get_rx_stats_cclk_call ==
    /\ pc = "Idle"
    /\ op = "get_rx_stats_cclk"
    /\ result' = get_rx_stats_cclk(response)
    /\ pc' = "Done"
    /\ UNCHANGED connection

sim_test_cops_call ==
    /\ pc = "Idle"
    /\ op = "sim_test_cops"
    /\ result' = sim_test_cops(response)
    /\ pc' = "Done"
    /\ UNCHANGED connection

rx_stats_cops_call ==
    /\ pc = "Idle"
    /\ op = "rx_stats_cops"
    /\ result' = rx_stats_cops(response)
    /\ pc' = "Done"
    /\ UNCHANGED connection

NextParse ==
    \/ parse_gpsacp_call
    \/ parse_cclk_call
    \/ data_logger_cclk_call
    \/ get_rx_stats_cclk_call
    \/ sim_test_cops_call
    \/ rx_stats_cops_call

SpecParse == InitParse /\ [][NextParse]_vars

(***************************************************************************)
(* await_gnss (src/modules/csq.py on cmd_query; src/csq.py on AT_query).   *)
(* Each query is a whole call of the query method; the call ends as the    *)
(* method ends on a response that it has read whole.                       *)
(***************************************************************************)
MaxTries == 3

CMD_GPSP_READ ==
    <<"A", "T", "$", "G", "P", "S", "P", "?">>
CMD_GPSP_ON ==
    <<"A", "T", "$", "G", "P", "S", "P", "=", "1">>
CMD_GPSACP ==
    <<"A", "T", "$", "G", "P", "S", "A", "C", "P">>
GPSP_OFF ==
    <<"$", "G", "P", "S", "P", ":", " ", "0">>
GPSP_ON ==
    <<"$", "G", "P", "S", "P", ":", " ", "1">>
MSG_COULD_NOT_ACQUIRE ==
    <<"C", "o", "u", "l", "d", " ", "n", "o", "t", " ", "a", "c", "q", "u",
      "i", "r", "e", " ", "G", "N", "S", "S", " ", "f", "i", "x", " ", "i",
      "n", " ">>
MSG_TRIES ==
    <<" ", "t", "r", "i", "e", "s", " ", "(">>
MSG_SECONDS ==
    <<" ", "s", "e", "c", "o", "n", "d", "s", ")">>

\* str(n) of a natural number
RECURSIVE DecimalStr(_)
DecimalStr(n) ==
    IF n < 10 THEN <<DIGITS[n + 1]>>
    ELSE DecimalStr(n \div 10) \o <<DIGITS[(n % 10) + 1]>>

\* f"Could not acquire GNSS fix in {tries} tries ({tries*interval} seconds)"
await_gnss_message(tries, interval) ==
    MSG_COULD_NOT_ACQUIRE \o DecimalStr(tries) \o MSG_TRIES
        \o DecimalStr(tries * interval) \o MSG_SECONDS

\* the values callers pass as tries= and interval=
TriesArgs == 1..MaxTries
IntervalArgs == {1, 3}

\* what the modem may answer to AT$GPSP?
GpspResponses ==
    { <<GPSP_OFF, OK>>, <<GPSP_ON, OK>>, <<OK>>, <<ERROR>> }

\* what the modem may answer to AT$GPSP=1
GpspOnResponses ==
    { <<OK>>, <<ERROR>> }

\* what the modem may answer to AT$GPSACP
GpsacpResponses ==
    {<<GpsacpSentence(f), OK>> : f \in GnssFixes}
        \cup {<<s, OK>> : s \in NoFixSentences}
        \cup { <<OK>>, <<ERROR>> }

\* self.cmd_query(c), or self.AT_query(c) in the first version, on the
\* modem's answer
QueryEnded(c, answer, legacy) ==
    IF legacy THEN ATClassify(c, Wire(answer), FALSE, TRUE)
    ELSE CmdClassify(c, SplitLines(Wire(answer)), FALSE)

\* the set of the while condition
NoFixForms == {GPSACP_PREFIX \o NOFIX_FIELDS_0, GPSACP_PREFIX \o NOFIX_FIELDS_1}

\* i = 1
FirstAttempt == 1

\* what await_gnss leaves alone; its with self.ser block opens the port
\* on entry and closes it when the block is left, by return or by exception
gnss_unchanged ==
    <<AT_commandline, timeout, flag, ser_timeout, old_timeout, inbuf, wire,
      sio_chars, response_lines, confirm_lines, polls, old_rx,
      stale_captured, read_timed_out, urcs, files, posts>>

await_gnss_call(tries, interval, legacy) ==
    /\ NoCallInProgress
    /\ op' = "await_gnss"
    /\ locals' = [routine |-> "await_gnss", tries |-> tries,
                  interval |-> interval, legacy |-> legacy, i |-> 0]
    /\ pc' = "gpsp_read"
    /\ is_open' = TRUE
    /\ UNCHANGED <<tx, response, result>>
    /\ UNCHANGED gnss_unchanged

\* if self.cmd_query("AT$GPSP?")[-1] == "0"
await_gnss_gpsp_read ==
    /\ op = "await_gnss"
    /\ pc = "gpsp_read"
    /\ tx' = Append(tx, CommandLineText(CMD_GPSP_READ))
    /\ \E answer \in GpspResponses :
          LET ended == QueryEnded(CMD_GPSP_READ, answer, locals.legacy)
          IN  IF ended.exc # "none"
              THEN /\ result' = ended
                   /\ pc' = "Done"
                   /\ UNCHANGED locals
              ELSE IF ended.kind = "None"
              THEN /\ result' = Raised("TypeError")
                   /\ pc' = "Done"
                   /\ UNCHANGED locals
              ELSE IF ended.str = <<>>
              THEN /\ result' = Raised("IndexError")
                   /\ pc' = "Done"
                   /\ UNCHANGED locals
              ELSE IF ended.str[Len(ended.str)] = "0"
              THEN /\ pc' = "gpsp_on"
                   /\ UNCHANGED <<locals, result>>
              ELSE /\ pc' = "gpsacp"
                   /\ locals' = [locals EXCEPT !.i = FirstAttempt]
                   /\ UNCHANGED result
    /\ is_open' = IF pc' = "Done" THEN FALSE ELSE is_open
    /\ UNCHANGED <<op, response>>
    /\ UNCHANGED gnss_unchanged

\* self.cmd_query("AT$GPSP=1"), then i = 1
await_gnss_gpsp_on ==
    /\ op = "await_gnss"
    /\ pc = "gpsp_on"
    /\ tx' = Append(tx, CommandLineText(CMD_GPSP_ON))
    /\ \E answer \in GpspOnResponses :
          LET ended == QueryEnded(CMD_GPSP_ON, answer, locals.legacy)
          IN  IF ended.exc # "none"
              THEN /\ result' = ended
                   /\ pc' = "Done"
                   /\ UNCHANGED locals
              ELSE /\ pc' = "gpsacp"
                   /\ locals' = [locals EXCEPT !.i = FirstAttempt]
                   /\ UNCHANGED result
    /\ is_open' = IF pc' = "Done" THEN FALSE ELSE is_open
    /\ UNCHANGED <<op, response>>
    /\ UNCHANGED gnss_unchanged

\* the while condition, and the test of i when it holds: one AT$GPSACP
\* query; response keeps what it returned
await_gnss_query ==
    /\ op = "await_gnss"
    /\ pc = "gpsacp"
    /\ tx' = Append(tx, CommandLineText(CMD_GPSACP))
    /\ \E answer \in GpsacpResponses :
          LET ended == QueryEnded(CMD_GPSACP, answer, locals.legacy)
          IN  IF ended.exc # "none"
              THEN /\ result' = ended
                   /\ pc' = "Done"
                   /\ UNCHANGED response
              ELSE /\ response' = ended.str
                   /\ IF ended.kind = "str" /\ ended.str \in NoFixForms
                      THEN IF locals.i > locals.tries
                           THEN /\ result' = RaisedWith("RuntimeWarning",
                                      await_gnss_message(locals.tries, locals.interval))
                                /\ pc' = "Done"
                           ELSE /\ pc' = "gnss_sleep"
                                /\ UNCHANGED result
                      ELSE /\ result' = Returned("None", <<>>, <<>>)
                           /\ pc' = "Done"
    /\ is_open' = IF pc' = "Done" THEN FALSE ELSE is_open
    /\ UNCHANGED <<op, locals>>
    /\ UNCHANGED gnss_unchanged

\* print(f"GNSS fix attempt: {i}"); time.sleep(interval); i += 1
await_gnss_sleep ==
    /\ op = "await_gnss"
    /\ pc = "gnss_sleep"
    /\ locals' = [locals EXCEPT !.i = @ + 1]
    /\ pc' = "gpsacp"
    /\ UNCHANGED <<op, tx, response, result, is_open>>
    /\ UNCHANGED gnss_unchanged

NextGnss ==
    \/ \E tries \in TriesArgs, interval \in IntervalArgs, legacy \in BOOLEAN :
            await_gnss_call(tries, interval, legacy)
    \/ await_gnss_gpsp_read
    \/ await_gnss_gpsp_on
    \/ await_gnss_query
    \/ await_gnss_sleep

SpecGnss == Init /\ [][NextGnss]_vars

(***************************************************************************)
(* http_send (src/modules/csq.py), and the upload step of the data logger  *)
(* (src/scripts/smartpark_data_logger.py): http_send, then await_urc.      *)
(***************************************************************************)
CMD_HTTPSND ==
    <<"A", "T", "#", "H", "T", "T", "P", "S", "N", "D", "=">>
POST ==
    <<"P", "O", "S", "T">>
PUT ==
    <<"P", "U", "T">>
GET ==
    <<"G", "E", "T">>
POST_LOWER ==
    <<"p", "o", "s", "t">>
APPLICATION_JSON ==
    <<"a", "p", "p", "l", "i", "c", "a", "t", "i", "o", "n", "/", "j", "s",
      "o", "n">>
RESOURCE ==
    <<"/", "a", "p", "i", "/", "i", "n", "t", "a", "k", "e">>
JSON_DATA ==
    <<"{", "\"", "d", "\"", ":", " ", "1", ",", " ", "\"", "t", "\"", ":",
      " ", "2", "1", ".", "5", "}">>
DATA_PROMPT ==
    <<"\r", "\n", ">", ">", ">">>
MSG_MODEM_RETURNED ==
    <<"M", "o", "d", "e", "m", " ", "r", "e", "t", "u", "r", "n", "e", "d",
      " ">>
MSG_WHEN_EXPECTED ==
    <<" ", "w", "h", "e", "n", " ", "\"", "\\", "r", "\\", "n", ">", ">",
      ">", "\"", " ", "w", "a", "s", " ", "e", "x", "p", "e", "c", "t",
      "e", "d">>
MSG_HTTP_DATA_ERROR ==
    <<"M", "o", "d", "e", "m", " ", "r", "e", "t", "u", "r", "n", "e", "d",
      " ", "e", "r", "r", "o", "r", " ", "a", "f", "t", "e", "r", " ", "a",
      "t", "t", "e", "m", "p", "t", "i", "n", "g", " ", "t", "o", " ", "s",
      "e", "n", "d", " ", "H", "T", "T", "P", " ", "d", "a", "t", "a", ":",
      " ">>
MSG_UNSUPPORTED ==
    <<"U", "n", "s", "u", "p", "p", "o", "r", "t", "e", "d", " ", "r", "e",
      "q", "u", "e", "s", "t", "_", "t", "y", "p", "e">>

\* the values the callers pass
RequestTypes == {POST, POST_LOWER, PUT, GET}
PostParams == {<<"1">>, APPLICATION_JSON}

\* lines 551-563: the command line for command 0 (POST) and 1 (PUT)
HTTP_AT_command(http_prof_id, command, resource, data, post_param) ==
    CMD_HTTPSND \o http_prof_id \o <<",">> \o command \o <<",">> \o resource
        \o <<",">> \o DecimalStr(Len(data))
        \o (IF command = <<"1">> THEN <<",">> \o post_param ELSE <<>>)

\* a slip: any reply that begins a line is taken for the prompt
IsDataPrompt_AnyLine(ready_for_data_entry) ==
    StartsWith(ready_for_data_entry, CRLF)

\* line 587, negated: ready_for_data_entry == "\r\n>>>"
IsDataPrompt(ready_for_data_entry) == ready_for_data_entry = DATA_PROMPT

\* f"Modem returned {ready_for_data_entry} when \"\\r\\n>>>\" was expected"
http_send_prompt_message(ready_for_data_entry) ==
    MSG_MODEM_RETURNED \o ready_for_data_entry \o MSG_WHEN_EXPECTED

\* a slip: the letters OK anywhere in the lines read count as the result
HasOkLine_Substring(result_code) == Contains(Join(result_code), OK)

\* "OK\r\n" not in result_code, negated: a line of the list is OK<CR><LF>
HasOkLine(result_code) ==
    \E k \in 1..Len(result_code) : result_code[k] = OK \o CRLF

\* what the modem may send on the command line AT#HTTPSND: the data
\* prompt, an error, or nothing
HttpSndReplies ==
    { DATA_PROMPT, Framed(ERROR), Framed(CME_ERROR), <<>> }

\* what the modem may send once it has the data
HttpSndResults ==
    { Framed(OK), Framed(ERROR), Framed(CME_ERROR_OK), <<>> }

\* one step of self.sio.read(size): hand out what is read ahead; if that
\* is short of size, read the serial port once.  An empty read is end of
\* file and ends the call with what it has.
ReadChars(got, size) ==
    LET a == Min(size - Len(got), Len(sio_chars))
        ahead == got \o SubSeq(sio_chars, 1, a)
        b == Min(size - Len(ahead), Len(inbuf))
    IN  IF Len(ahead) = size
        THEN [text |-> ahead, chars |-> SubSeq(sio_chars, a + 1, Len(sio_chars)),
              inbuf |-> inbuf, done |-> TRUE, timed_out |-> FALSE]
        ELSE IF inbuf # <<>>
        THEN [text |-> ahead \o SubSeq(inbuf, 1, b),
              chars |-> SubSeq(inbuf, b + 1, Len(inbuf)),
              inbuf |-> <<>>, done |-> Len(ahead) + b = size,
              timed_out |-> FALSE]
        ELSE [text |-> ahead, chars |-> <<>>, inbuf |-> <<>>, done |-> TRUE,
              timed_out |-> TRUE]

\* lines 543-572: the request type, the command line, the flush check,
\* then time.sleep(0.05).  The step is taken once in a behaviour.
http_send_call(resource, data, request_type, post_param) ==
    /\ NoCallInProgress
    /\ locals.routine = "none"
    /\ op' = "http_send"
    /\ LET command == IF Upper(request_type) = POST THEN <<"0">>
                      ELSE IF Upper(request_type) = PUT THEN <<"1">>
                      ELSE <<>>
           args == [routine |-> "http_send", resource |-> resource,
                    data |-> data, request_type |-> request_type,
                    post_param |-> post_param, command |-> command,
                    ready_for_data_entry |-> <<>>]
       IN  IF command = <<>>
           THEN /\ result' = RaisedWith("RuntimeError", MSG_UNSUPPORTED)
                /\ pc' = "Done"
                /\ locals' = args
                /\ UNCHANGED <<AT_commandline, inbuf, old_rx>>
           ELSE /\ AT_commandline' =
                      HTTP_AT_command(<<"0">>, command, resource, data, post_param)
                /\ locals' = args
                /\ inbuf' = FlushInput(inbuf)
                /\ old_rx' = Min(old_rx, Len(sio_chars))
                /\ pc' = "presleep"
                /\ UNCHANGED result
    /\ UNCHANGED <<timeout, flag, ser_timeout, old_timeout, wire, sio_chars, tx,
                   response_lines, confirm_lines, response, polls,
                   stale_captured, read_timed_out, urcs, files, posts,
                   is_open>>

\* line 573: self.sio.write(HTTP_AT_command+"\r")
http_send_write ==
    /\ op = "http_send"
    /\ pc = "presleep"
    /\ tx' = Append(tx, CommandLineText(AT_commandline))
    /\ sio_chars' = <<>>
    /\ \E reply \in HttpSndReplies : wire' = wire \o reply
    /\ old_rx' = Len(inbuf)
    /\ polls' = 0
    /\ pc' = "AwaitingData"
    /\ UNCHANGED <<op, AT_commandline, timeout, flag, ser_timeout, old_timeout,
                   inbuf, response_lines, confirm_lines, response, result,
                   stale_captured, read_timed_out, urcs, locals, files, posts,
                   is_open>>

\* lines 576-591: leave the wait loop, run self.sio.read(5) read by read,
\* compare with the prompt, then raise, or write the data and flush
http_send_prompt ==
    /\ op = "http_send"
    /\ Len(tx) = 1
    /\ \/ pc = "AwaitingData" /\ WaitLoopExits(inbuf, polls)
       \/ pc = "read_prompt"
    /\ LET r == ReadChars(locals.ready_for_data_entry, ReadHint)
           stale == Min(Len(sio_chars) + Len(inbuf) - Len(r.chars) - Len(r.inbuf),
                        old_rx)
       IN  /\ locals' = [locals EXCEPT !.ready_for_data_entry = r.text]
           /\ read_timed_out' = (read_timed_out \/ r.timed_out)
           /\ stale_captured' = stale_captured + stale
           /\ IF ~r.done
              THEN /\ pc' = "read_prompt"
                   /\ sio_chars' = r.chars
                   /\ inbuf' = r.inbuf
                   /\ old_rx' = old_rx - stale
                   /\ UNCHANGED <<tx, wire, result, polls>>
              ELSE IF ~IsDataPrompt(r.text)
              THEN /\ result' = RaisedWith("ModemError",
                                           http_send_prompt_message(r.text))
                   /\ pc' = "Done"
                   /\ sio_chars' = r.chars
                   /\ inbuf' = r.inbuf
                   /\ old_rx' = old_rx - stale
                   /\ UNCHANGED <<tx, wire, polls>>
              ELSE /\ tx' = Append(tx, locals.data)
                   /\ sio_chars' = <<>>
                   /\ inbuf' = r.inbuf
                   /\ old_rx' = Len(r.inbuf)
                   /\ \E answer \in HttpSndResults : wire' = wire \o answer
                   /\ polls' = 0
                   /\ pc' = "AwaitingData"
                   /\ UNCHANGED result
    /\ UNCHANGED <<op, AT_commandline, timeout, flag, ser_timeout, old_timeout,
                   response_lines, confirm_lines, response, urcs, files, posts,
                   is_open>>

\* lines 593-601: leave the second wait loop, run readlines(5) read by
\* read, look for the line OK, return or raise
http_send_result ==
    /\ op = "http_send"
    /\ Len(tx) = 2
    /\ \/ pc = "AwaitingData" /\ WaitLoopExits(inbuf, polls)
       \/ pc = "read_result"
    /\ LET r == ReadStep(confirm_lines, ReadHint)
           stale == Min(Consumed(r), old_rx)
       IN  /\ confirm_lines' = r.lines
           /\ sio_chars' = r.chars
           /\ inbuf' = r.inbuf
           /\ stale_captured' = stale_captured + stale
           /\ read_timed_out' = (read_timed_out \/ r.timed_out)
           /\ old_rx' = old_rx - stale
           /\ IF ~r.done
              THEN /\ pc' = "read_result"
                   /\ UNCHANGED result
              ELSE /\ pc' = "Done"
                   /\ result' = IF HasOkLine(r.lines)
                                THEN Returned("None", <<>>, <<>>)
                                ELSE RaisedWith("ATCommandError", MSG_HTTP_DATA_ERROR)
    /\ UNCHANGED <<op, AT_commandline, timeout, flag, ser_timeout, old_timeout,
                   wire, tx, response_lines, response, polls, urcs, locals,
                   files, posts,
                   is_open>>

\* smartpark_data_logger.py, lines 121-130: http_send has returned, or
\* has raised an exception the script catches and warns about; the script
\* goes on to await_urc
data_logger_continue ==
    /\ op = "http_send"
    /\ pc = "Done"
    /\ result.exc \in {"none", "ModemError", "ATCommandError"}
    /\ pc' = "Idle"
    /\ UNCHANGED <<op, AT_commandline, timeout, flag, ser_timeout, old_timeout,
                   inbuf, wire, sio_chars, tx, response_lines, confirm_lines,
                   response, polls, result, old_rx, stale_captured,
                   read_timed_out, urcs, locals, files, posts,
                   is_open>>

NextLogger ==
    \/ \E request_type \in RequestTypes, post_param \in PostParams :
            http_send_call(RESOURCE, JSON_DATA, request_type, post_param)
    \/ http_send_write
    \/ http_send_prompt
    \/ http_send_result
    \/ data_logger_continue
    \/ await_urc_call
    \/ await_urc_readlines
    \/ Poll
    \/ ModemDeliver
    \/ ModemUrc

SpecLogger == Init /\ [][NextLogger]_vars

(***************************************************************************)
(* The traffic counter's upload loop (src/retrival.py).                    *)
(***************************************************************************)
MaxPosts == 2

USB_MOUNT_POINT ==
    <<"/", "m", "n", "t", "/", "u", "s", "b">>
FILE_A_PRN ==
    <<"/", "m", "n", "t", "/", "u", "s", "b", "/", "A", ".", "P", "R", "N">>
FILE_B_CSV ==
    <<"/", "m", "n", "t", "/", "u", "s", "b", "/", "b", ".", "c", "s", "v">>
FILE_NOTES ==
    <<"/", "m", "n", "t", "/", "u", "s", "b", "/", "n", "o", "t", "e", "s",
      ".", "t", "x", "t">>
LINE_HEADER ==
    <<"T", "i", "m", "e", "S", "t", "a", "m", "p", ",", "L", "a", "n", "e",
      "\n">>
LINE_VEHICLE_1 ==
    <<"2", "0", "2", "5", "/", "0", "6", "/", "0", "1", " ", "1", "4", ":",
      "2", "3", ":", "1", "0", ",", "0", "1", "\n">>
LINE_VEHICLE_2 ==
    <<"2", "0", "2", "5", "/", "6", "/", "1", " ", "9", ":", "0", "5", ":",
      "4", "5", "\n">>
LINE_SITE ==
    <<"S", "i", "t", "e", " ", "1", "2", "\n">>
LINE_BAD_DAY ==
    <<"2", "0", "2", "5", "/", "0", "2", "/", "3", "0", " ", "1", "0", ":",
      "0", "0", ":", "0", "0", "\n">>
LINE_BLANK ==
    <<"\n">>
TEXT_TIMESTAMP ==
    <<"T", "i", "m", "e", "S", "t", "a", "m", "p">>
TEXT_DATE ==
    <<"D", "a", "t", "e">>
TEXT_TIME ==
    <<"T", "i", "m", "e">>
ASCII_ORDER ==
    <<".", "/", "0", "1", "2", "3", "4", "5", "6", "7", "8", "9", "A", "B",
      "C", "D", "E", "F", "G", "H", "I", "J", "K", "L", "M", "N", "O", "P",
      "Q", "R", "S", "T", "U", "V", "W", "X", "Y", "Z", "_", "a", "b", "c",
      "d", "e", "f", "g", "h", "i", "j", "k", "l", "m", "n", "o", "p", "q",
      "r", "s", "t", "u", "v", "w", "x", "y", "z">>

LOCATION_ID == 3

\* the suffixes of list_data_files' patterns
DataSuffixes ==
    { <<".", "c", "s", "v">>, <<".", "C", "S", "V">>, <<".", "p", "r", "n">>,
      <<".", "P", "R", "N">>, <<".", "d", "m", "p">>, <<".", "D", "M", "P">> }

\* the files the counter may write, and what it writes into one
FileNames == {FILE_A_PRN, FILE_B_CSV, FILE_NOTES}

FileContents ==
    { <<LINE_HEADER, LINE_VEHICLE_1, LINE_VEHICLE_2>>,
      <<LINE_VEHICLE_1, LINE_BAD_DAY>>,
      <<LINE_SITE, LINE_BLANK>> }

\* str comparison, a < b, on the characters that occur in the paths
CharRank(c) == CHOOSE k \in 1..Len(ASCII_ORDER) : ASCII_ORDER[k] = c

RECURSIVE StrLess(_, _)
StrLess(a, b) ==
    IF b = <<>> THEN FALSE
    ELSE IF a = <<>> THEN TRUE
    ELSE IF Head(a) = Head(b) THEN StrLess(Tail(a), Tail(b))
    ELSE CharRank(Head(a)) < CharRank(Head(b))

\* sorted(matches)
RECURSIVE Sorted(_)
Sorted(names) ==
    IF names = {} THEN <<>>
    ELSE LET first == CHOOSE n \in names : \A m \in names \ {n} : StrLess(n, m)
         IN  <<first>> \o Sorted(names \ {first})

\* list_data_files: the files of the mount a pattern matches, sorted
list_data_files(on_mount) ==
    Sorted({n \in on_mount : \E suffix \in DataSuffixes : EndsWith(n, suffix)})

\* a field of one or two digits, as %m %d %H %M %S take it
IsShortField(s) == IsIntLiteral(s) /\ Len(s) <= 2

\* time.strptime(ts_str, "%Y/%m/%d %H:%M:%S") accepts the text: the texts
\* met hold one blank between date and time
IsTimestamp(ts_str) ==
    LET halves == Split(ts_str, <<" ">>)
        ymd == Split(halves[1], <<"/">>)
        hms == Split(halves[2], <<":">>)
    IN  /\ Len(halves) = 2
        /\ Len(ymd) = 3
        /\ Len(hms) = 3
        /\ IsIntLiteral(ymd[1]) /\ Len(ymd[1]) = 4
        /\ IsShortField(ymd[2]) /\ IsShortField(ymd[3])
        /\ IsShortField(hms[1]) /\ IsShortField(hms[2]) /\ IsShortField(hms[3])
        /\ IsDate(IntOf(ymd[1]), IntOf(ymd[2]), IntOf(ymd[3]))
        /\ IntOf(hms[1]) \in 0..23
        /\ IntOf(hms[2]) \in 0..59
        /\ IntOf(hms[3]) \in 0..61

\* time.strftime("%Y-%m-%dT%H:%M:%S", t_struct), for a year of four digits
IsoTimestamp(ts_str) ==
    LET halves == Split(ts_str, <<" ">>)
        ymd == Split(halves[1], <<"/">>)
        hms == Split(halves[2], <<":">>)
    IN  IsoFormat(IntOf(ymd[1]), IntOf(ymd[2]), IntOf(ymd[3])) \o <<"T">>
            \o StrfTime(IntOf(hms[1]), IntOf(hms[2]), IntOf(hms[3]))

WHITESPACE == {" ", "\t", "\r", "\n"}

\* "TimeStamp" in ln or "Date" in ln and "Time" in ln
IsHeaderLine(ln) ==
    \/ Contains(ln, TEXT_TIMESTAMP)
    \/ Contains(ln, TEXT_DATE) /\ Contains(ln, TEXT_TIME)

\* header_idx, counted from 1; 0 when no line is a header
HeaderIndex(lines) ==
    IF \E k \in 1..Len(lines) : IsHeaderLine(lines[k])
    THEN CHOOSE k \in 1..Len(lines) :
            /\ IsHeaderLine(lines[k])
            /\ \A m \in 1..(k - 1) : ~IsHeaderLine(lines[m])
    ELSE 0

\* the loop over lines[header_idx+1:]: one record for each line whose
\* first field is a timestamp
RECURSIVE VehicleRecords(_)
VehicleRecords(lines) ==
    IF lines = <<>> THEN <<>>
    ELSE LET ln == Strip(Head(lines), WHITESPACE)
             ts_str == Strip(Split(ln, <<",">>)[1], WHITESPACE)
         IN  (IF ln # <<>> /\ IsTimestamp(ts_str)
              THEN <<[timestamp |-> IsoTimestamp(ts_str)]>>
              ELSE <<>>)
                \o VehicleRecords(Tail(lines))

\* parse_device_file: vehicle_records (total_count is its length)
parse_device_file(lines) ==
    VehicleRecords(SubSeq(lines, HeaderIndex(lines) + 1, Len(lines)))

\* the loop of lines 183-187 over data_files
RECURSIVE ParseAll(_, _)
ParseAll(data_files, on_disk) ==
    IF data_files = <<>> THEN <<>>
    ELSE parse_device_file(on_disk[Head(data_files)])
            \o ParseAll(Tail(data_files), on_disk)

\* a slip: the files are removed whatever the upload's outcome
RemovesFiles_Always(success) == TRUE

\* if success: the local files are removed
RemovesFiles(success) == success

\* the elements of a list
Range(ls) == {ls[k] : k \in 1..Len(ls)}

\* what the upload loop leaves alone
upload_unchanged ==
    <<AT_commandline, timeout, flag, ser_timeout, old_timeout, inbuf, wire,
      sio_chars, tx, response_lines, confirm_lines, response, polls, result,
      old_rx, stale_captured, read_timed_out, urcs, is_open>>

\* main_loop is entered
main_loop_call ==
    /\ pc = "Idle"
    /\ op = "none"
    /\ op' = "main_loop"
    /\ locals' = [routine |-> "main_loop", data_files |-> <<>>,
                  all_vehicle_records |-> <<>>, total_vehicles |-> 0,
                  success |-> FALSE]
    /\ pc' = "find_device"
    /\ UNCHANGED <<files, posts>>
    /\ UNCHANGED upload_unchanged

\* lines 165-179: the mount is looked for and its data files are listed;
\* without a mount or without a file the loop sleeps and starts over
main_loop_list ==
    /\ op = "main_loop"
    /\ pc = "find_device"
    /\ \E mounted \in BOOLEAN :
          LET data_files == list_data_files(DOMAIN files)
          IN  IF mounted /\ data_files # <<>>
              THEN /\ locals' = [locals EXCEPT !.data_files = data_files]
                   /\ pc' = "parse"
              ELSE UNCHANGED <<locals, pc>>
    /\ UNCHANGED <<op, files, posts>>
    /\ UNCHANGED upload_unchanged

\* lines 181-189 and 200: every file is parsed; with no record at all the
\* loop sleeps and starts over
main_loop_parse ==
    /\ op = "main_loop"
    /\ pc = "parse"
    /\ LET all_vehicle_records == ParseAll(locals.data_files, files)
       IN  /\ locals' = [locals EXCEPT
                            !.all_vehicle_records = all_vehicle_records,
                            !.total_vehicles = Len(all_vehicle_records)]
           /\ pc' = IF all_vehicle_records # <<>> THEN "send" ELSE "find_device"
    /\ UNCHANGED <<op, files, posts>>
    /\ UNCHANGED upload_unchanged

\* lines 191-197 with send_batch_to_server: the request succeeds or fails
main_loop_send ==
    /\ op = "main_loop"
    /\ pc = "send"
    /\ Len(posts) < MaxPosts
    /\ \E success \in BOOLEAN :
          /\ posts' = Append(posts,
                [location |-> LOCATION_ID, batch |-> locals.all_vehicle_records,
                 data_files |-> locals.data_files, success |-> success])
          /\ locals' = [locals EXCEPT !.success = success]
          /\ pc' = IF RemovesFiles(success) THEN "remove" ELSE "find_device"
    /\ UNCHANGED <<op, files>>
    /\ UNCHANGED upload_unchanged

\* lines 194-195 with remove_processed_file, then line 200: os.remove on
\* every file of data_files; a file os.remove fails on stays
main_loop_remove ==
    /\ op = "main_loop"
    /\ pc = "remove"
    /\ \E failed \in SUBSET Range(locals.data_files) :
          files' = [n \in DOMAIN files \ (Range(locals.data_files) \ failed)
                        |-> files[n]]
    /\ pc' = "find_device"
    /\ UNCHANGED <<op, locals, posts>>
    /\ UNCHANGED upload_unchanged

\* the counter writes a new file to its mount
CounterWrites ==
    /\ \E name \in FileNames \ DOMAIN files, content \in FileContents :
          files' = [n \in DOMAIN files \cup {name}
                        |-> IF n = name THEN content ELSE files[n]]
    /\ UNCHANGED <<pc, op, locals, posts>>
    /\ UNCHANGED upload_unchanged

NextUpload ==
    \/ main_loop_call
    \/ main_loop_list
    \/ main_loop_parse
    \/ main_loop_send
    \/ main_loop_remove
    \/ CounterWrites

SpecUpload == Init /\ [][NextUpload]_vars

(***************************************************************************)
(* The cleaning and classification of cmd_query (lines 297-345) on the     *)
(* lines readlines() can hand it: every line ends with its terminator, and *)
(* the modem may send empty lines next to each other and after the result  *)
(* code.                                                                   *)
(***************************************************************************)
\* longest list of lines drawn
MaxLines == 4

\* the lines a response is made of, as readlines() hands them out
ReadLineForms == {CRLF, INFO_CSQ \o CRLF, OK \o CRLF, ERROR \o CRLF}

\* the lists of at most n such lines
LineLists(n) == UNION {[1..k -> ReadLineForms] : k \in 0..n}

InitClean ==
    /\ pc = "Idle"
    /\ op = "cmd_query"
    /\ AT_commandline = CMD_AT
    /\ flag \in BOOLEAN
    /\ response_lines \in LineLists(MaxLines)
    /\ result = Pending
    /\ timeout = 0
    /\ ser_timeout = DefaultTimeout
    /\ old_timeout = 0
    /\ inbuf = <<>>
    /\ wire = <<>>
    /\ sio_chars = <<>>
    /\ tx = <<>>
    /\ confirm_lines = <<>>
    /\ response = <<>>
    /\ polls = 0
    /\ old_rx = 0
    /\ stale_captured = 0
    /\ read_timed_out = FALSE
    /\ urcs = 0
    /\ locals = NoLocals
    /\ files = <<>>
    /\ posts = <<>>
    /\ is_open = FALSE

\* lines 297-345 on the lines read: the two cleaning loops, the pop, the
\* classification and the return or raise
cmd_query_clean ==
    /\ pc = "Idle"
    /\ op = "cmd_query"
    /\ result' = cmd_query_classify(response_lines)
    /\ pc' = "Done"
    /\ UNCHANGED connection

NextClean == cmd_query_clean

SpecClean == InitClean /\ [][NextClean]_vars

(***************************************************************************)
(* The routines of TelitME910G1 that open the port, run a list of queries  *)
(* and close the port (src/modules/csq.py): self_test, sim_test,           *)
(* signal_test and await_gnss in a with self.ser block, diagnostic_test    *)
(* between self.ser.open() and self.ser.close().  pySerial: entering the   *)
(* with block opens the port unless it is open, leaving it closes the      *)
(* port; open() on an open port raises SerialException.                    *)
(***************************************************************************)
CMD_QSS_READ ==
    <<"A", "T", "#", "Q", "S", "S", "?">>
CMD_WS46_READ ==
    <<"A", "T", "#", "W", "S", "4", "6", "?">>
CMD_CREG_READ ==
    <<"A", "T", "+", "C", "R", "E", "G", "?">>
CMD_COPS_READ ==
    <<"A", "T", "+", "C", "O", "P", "S", "?">>
CMD_RFSTS ==
    <<"A", "T", "#", "R", "F", "S", "T", "S">>
CMD_COPS_TEST ==
    <<"A", "T", "+", "C", "O", "P", "S", "=", "?">>
INFO_QSS ==
    <<"#", "Q", "S", "S", ":", " ", "0", ",", "1">>
INFO_WS46 ==
    <<"#", "W", "S", "4", "6", ":", " ", "3", "0">>
INFO_CREG ==
    <<"+", "C", "R", "E", "G", ":", " ", "0", ",", "1">>
RFSTS_PREFIX ==
    <<"#", "R", "F", "S", "T", "S", ":", " ">>
INFO_RFSTS ==
    <<"#", "R", "F", "S", "T", "S", ":", " ", "\"", "3", "1", "1", " ",
      "4", "8", "0", "\"", ",", "5", "2", "3", ",", "-", "9", "5", ",",
      "-", "6", "6", ",", "-", "1", "1", ",", "2", "A", ",", "0", ",", ",",
      "8", ",", "1", "9", ",", "0", ",", "1", "A", ",", "\"", "3", "1",
      "\"", ",", "\"", "V", "z", "\"", ",", "3", ",", "1", "3", ",", "7",
      ",", "3", "2", ",", "1", "0">>
INFO_COPS_LIST ==
    <<"+", "C", "O", "P", "S", ":", " ", "(", "2", ",", "\"", "V", "e",
      "r", "i", "z", "o", "n", "\"", ",", ",", "\"", "3", "1", "1", "4",
      "8", "0", "\"", ",", "8", ")">>

\* the routines that run their queries inside with self.ser
WithRoutines == {"self_test", "sim_test", "signal_test"}

Routines == WithRoutines \cup {"diagnostic_test", "await_gnss"}

\* the command lines a routine sends, in the order of its cmd_query calls
RoutineCommands(routine) ==
    IF routine = "self_test" THEN <<CMD_AT, CMD_QSS_READ, CMD_GPSP_READ>>
    ELSE IF routine = "sim_test" THEN <<CMD_WS46_READ, CMD_CREG_READ, CMD_COPS_READ>>
    ELSE IF routine = "signal_test" THEN <<CMD_RFSTS, CMD_COPS_READ>>
    ELSE <<CMD_WS46_READ, CMD_GPSP_READ, CMD_COPS_TEST>>

\* what the modem may answer to a command line of a routine
RoutineAnswers(c) ==
    { <<OK>>, <<ERROR>> } \cup
    ( IF c = CMD_QSS_READ THEN { <<INFO_QSS, OK>> }
      ELSE IF c = CMD_GPSP_READ THEN { <<GPSP_ON, OK>> }
      ELSE IF c = CMD_WS46_READ THEN { <<INFO_WS46, OK>> }
      ELSE IF c = CMD_CREG_READ THEN { <<INFO_CREG, OK>> }
      ELSE IF c = CMD_RFSTS THEN { <<INFO_RFSTS, OK>>, <<INFO_QSS, OK>> }
      ELSE IF c = CMD_COPS_TEST THEN { <<INFO_COPS_LIST, OK>> }
      ELSE IF c = CMD_COPS_READ
      THEN { <<CopsReply(<<"0">>, <<"0">>, VERIZON, <<"8">>), OK>>,
             <<CopsReply(<<"0">>, <<"0">>, VERIZON, <<"7">>), OK>>,
             <<COPS_PREFIX \o <<"2">>, OK>> }
      ELSE {} )

\* the index from the end that the routine applies to the string returned
\* by its query number step: [-1], [-3], or none (0)
IndexFromEnd(routine, step) ==
    IF routine = "self_test" /\ step \in {2, 3} THEN 1
    ELSE IF routine = "sim_test" /\ step = 1 THEN 3
    ELSE IF routine = "sim_test" /\ step = 2 THEN 1
    ELSE 0

\* signal_test after its two queries: the statistics are cut out of rfsts
\* when the reply to AT+COPS? holds a comma
signal_test_stats(rfsts, cops) ==
    LET sstats == Split(RemoveAll(rfsts, RFSTS_PREFIX), <<",">>)
    IN  IF Len(Split(cops, <<",">>)) - 1 # 0
        THEN IF Len(sstats) < 19 THEN Raised("IndexError")
             ELSE Returned("dict", <<>>, sstats)
        ELSE Returned("None", <<>>, <<>>)

\* what a routine does with the string its query number step returned:
\* an exception of the indexing or of the decoding, or nothing to report
AfterQuery(routine, step, value, rfsts) ==
    IF Len(value) < IndexFromEnd(routine, step) THEN Raised("IndexError")
    ELSE IF routine = "sim_test" /\ step = 3
    THEN (IF sim_test_cops(value).exc = "none"
          THEN Returned("None", <<>>, <<>>)
          ELSE Raised(sim_test_cops(value).exc))
    ELSE IF routine = "signal_test" /\ step = 2
    THEN signal_test_stats(rfsts, value)
    ELSE Returned("None", <<>>, <<>>)

\* what the routines leave alone
routine_unchanged ==
    <<AT_commandline, timeout, flag, ser_timeout, old_timeout, inbuf, wire,
      sio_chars, response_lines, confirm_lines, polls, old_rx,
      stale_captured, read_timed_out, urcs, files, posts>>

\* with self.ser: of self_test, sim_test and signal_test
with_routine_call(routine) ==
    /\ NoCallInProgress
    /\ op' = routine
    /\ locals' = [routine |-> routine, step |-> 1]
    /\ is_open' = TRUE
    /\ pc' = "routine"
    /\ UNCHANGED <<tx, response, result>>
    /\ UNCHANGED routine_unchanged

\* diagnostic_test, line 786: self.ser.open()
diagnostic_test_call ==
    /\ NoCallInProgress
    /\ op' = "diagnostic_test"
    /\ locals' = [routine |-> "diagnostic_test", step |-> 1]
    /\ IF is_open
       THEN /\ result' = Raised("SerialException")
            /\ pc' = "Done"
       ELSE /\ pc' = "routine"
            /\ UNCHANGED result
    /\ is_open' = TRUE
    /\ UNCHANGED <<tx, response>>
    /\ UNCHANGED routine_unchanged

\* the next cmd_query call of the routine and what the routine does with
\* the value; response keeps what the first query returned.  An exception
\* leaves the routine: through the with block, which closes the port, in
\* self_test, sim_test and signal_test; past self.ser.close() (line 826)
\* in diagnostic_test.
routine_query ==
    /\ pc = "routine"
    /\ op \in WithRoutines \cup {"diagnostic_test"}
    /\ LET c == RoutineCommands(op)[locals.step]
           last == locals.step = Len(RoutineCommands(op))
       IN  /\ tx' = Append(tx, CommandLineText(c))
           /\ \E answer \in RoutineAnswers(c) :
                LET ended == QueryEnded(c, answer, FALSE)
                    after == IF ended.exc # "none" THEN ended
                             ELSE AfterQuery(op, locals.step, ended.str, response)
                IN  /\ response' = IF locals.step = 1 /\ ended.exc = "none"
                                   THEN ended.str ELSE response
                    /\ IF after.exc # "none"
                       THEN /\ result' = after
                            /\ pc' = "Done"
                            /\ is_open' = (op = "diagnostic_test")
                            /\ UNCHANGED locals
                       ELSE IF last
                       THEN /\ result' = after
                            /\ pc' = "Done"
                            /\ is_open' = FALSE
                            /\ UNCHANGED locals
                       ELSE /\ locals' = [locals EXCEPT !.step = @ + 1]
                            /\ UNCHANGED <<pc, result, is_open>>
    /\ UNCHANGED op
    /\ UNCHANGED routine_unchanged

\* the routine has ended and its caller goes on
routine_return ==
    /\ pc = "Done"
    /\ op \in Routines
    /\ pc' = "Idle"
    /\ op' = "none"
    /\ locals' = NoLocals
    /\ tx' = <<>>
    /\ response' = <<>>
    /\ result' = Pending
    /\ UNCHANGED is_open
    /\ UNCHANGED routine_unchanged

NextRoutines ==
    \/ \E routine \in WithRoutines : with_routine_call(routine)
    \/ diagnostic_test_call
    \/ routine_query
    \/ routine_return
    \/ \E tries \in TriesArgs, interval \in IntervalArgs :
            await_gnss_call(tries, interval, FALSE)
    \/ await_gnss_gpsp_read
    \/ await_gnss_gpsp_on
    \/ await_gnss_query
    \/ await_gnss_sleep

SpecRoutines == Init /\ [][NextRoutines]_vars

(***************************************************************************)
(* The upload loop as it is scheduled, on the files the counter has        *)
(* written before the loop starts: main_loop never stops, the mount is     *)
(* found again and again, a request that keeps being made succeeds in the  *)
(* end, and so does the removal of the files.                              *)
(***************************************************************************)
\* what the counter may have left on its mount
Mounts == UNION {[names -> FileContents] : names \in SUBSET FileNames}

InitMounted ==
    /\ pc = "Idle"
    /\ op = "none"
    /\ files \in Mounts
    /\ posts = <<>>
    /\ locals = NoLocals
    /\ result = Pending
    /\ AT_commandline = <<>>
    /\ timeout = 0
    /\ flag = FALSE
    /\ ser_timeout = DefaultTimeout
    /\ old_timeout = 0
    /\ inbuf = <<>>
    /\ wire = <<>>
    /\ sio_chars = <<>>
    /\ tx = <<>>
    /\ response_lines = <<>>
    /\ confirm_lines = <<>>
    /\ response = <<>>
    /\ polls = 0
    /\ old_rx = 0
    /\ stale_captured = 0
    /\ read_timed_out = FALSE
    /\ urcs = 0
    /\ is_open = FALSE

\* the mount is found with data files on it
MountListed == main_loop_list /\ pc' = "parse"

\* the request is made and the server accepts it
UploadSucceeds == main_loop_send /\ locals'.success

\* os.remove succeeds on every file of the cycle
AllRemoved ==
    main_loop_remove /\ \A n \in Range(locals.data_files) : n \notin DOMAIN files'

\* parse_device_file on every content a file of the mount may hold
ParsedFile == [lines \in FileContents |-> parse_device_file(lines)]

\* the loop of lines 183-187 over data_files, on ParsedFile
RECURSIVE ParsedAll(_, _)
ParsedAll(data_files, on_disk) ==
    IF data_files = <<>> THEN <<>>
    ELSE ParsedFile[on_disk[Head(data_files)]]
            \o ParsedAll(Tail(data_files), on_disk)

\* the step of main_loop_parse: lines 181-189 never block
FilesParsed ==
    /\ op = "main_loop"
    /\ pc = "parse"
    /\ locals' = [locals EXCEPT
            !.all_vehicle_records = ParsedAll(locals.data_files, files),
            !.total_vehicles = Len(ParsedAll(locals.data_files, files))]
    /\ pc' = IF ParsedAll(locals.data_files, files) # <<>>
             THEN "send" ELSE "find_device"
    /\ UNCHANGED <<op, files, posts>>
    /\ UNCHANGED upload_unchanged

NextLoop ==
    \/ main_loop_call
    \/ main_loop_list
    \/ main_loop_parse
    \/ main_loop_send
    \/ main_loop_remove

SpecUploadFair ==
    /\ InitMounted
    /\ [][NextLoop]_vars
    /\ WF_vars(main_loop_call)
    /\ WF_vars(MountListed)
    /\ WF_vars(FilesParsed)
    /\ SF_vars(UploadSucceeds)
    /\ SF_vars(AllRemoved)

(***************************************************************************)
(* The constructor of TelitME910G1 and one_time_setup: the serial ports    *)
(* of the host are enumerated, the port object is created on the device    *)
(* found, and the modem is configured.  A port is the ListPortInfo of      *)
(* serial.tools.list_ports: vid, pid, name and device.                     *)
(***************************************************************************)
DEV_USB2 ==
    <<"/", "d", "e", "v", "/", "t", "t", "y", "U", "S", "B", "2">>
DEV_USB0 ==
    <<"/", "d", "e", "v", "/", "t", "t", "y", "U", "S", "B", "0">>
DEV_USB3 ==
    <<"/", "d", "e", "v", "/", "t", "t", "y", "U", "S", "B", "3">>
DEV_USB5 ==
    <<"/", "d", "e", "v", "/", "t", "t", "y", "U", "S", "B", "5">>
NAME_USB2 ==
    <<"t", "t", "y", "U", "S", "B", "2">>
NAME_USB0 ==
    <<"t", "t", "y", "U", "S", "B", "0">>
NAME_USB3 ==
    <<"t", "t", "y", "U", "S", "B", "3">>
NAME_USB5 ==
    <<"t", "t", "y", "U", "S", "B", "5">>
USB2 ==
    <<"U", "S", "B", "2">>
MSG_COULD_NOT_DETECT ==
    <<"C", "o", "u", "l", "d", " ", "n", "o", "t", " ", "d", "e", "t", "e",
      "c", "t", " ", "t", "h", "e", " ", "m", "o", "d", "e", "m", " ", "s",
      "e", "r", "i", "a", "l", " ", "p", "o", "r", "t">>
MSG_COULD_NOT_FIND ==
    <<"C", "o", "u", "l", "d", " ", "n", "o", "t", " ", "f", "i", "n", "d",
      " ", "t", "h", "e", " ", "m", "o", "d", "e", "m", " ", "s", "e", "r",
      "i", "a", "l", " ", "d", "e", "v", "i", "c", "e">>
CMD_INIT_PROFILE ==
    <<"A", "T", "E", "0", "Q", "0", "V", "1", "X", "0", "&", "S", "3", "&",
      "K", "3">>
CMD_INIT_FLOW ==
    <<"A", "T", "+", "I", "F", "C", "=", "2", ",", "2", ";", "+", "C", "M",
      "E", "E", "=", "2">>
CMD_INIT_LEGACY ==
    <<"A", "T", "E", "0", "Q", "0", "V", "1", "X", "0", "&", "S", "3", "&",
      "K", "3", "+", "I", "F", "C", "=", "2", ",", "2", ";", "+", "C", "M",
      "E", "E", "=", "2">>
CMD_SETUP_PROFILE ==
    <<"A", "T", "E", "0", "Q", "0", "V", "1", "X", "0", "&", "S", "3", "&",
      "K", "3", "+", "I", "F", "C", "=", "2", ",", "2", ";", "+", "C", "M",
      "E", "E", "=", "2", ";", "+", "C", "T", "Z", "U", "=", "1", ";", "&",
      "W", "0">>
CMD_SETUP_NVM ==
    <<"A", "T", "#", "P", "O", "R", "T", "C", "F", "G", "=", "8", ";", "#",
      "U", "S", "B", "C", "F", "G", "=", "0", ";", "#", "D", "T", "R", "=",
      "2", ";", "#", "W", "S", "4", "6", "=", "2", ";", "#", "N", "B", "2",
      "E", "N", "A", "=", "0", ";", "#", "B", "N", "D", "=", "5", ",", "0",
      ",", "2", "5", "2", "5", "8", "2", "0", "4", "7", ",", "0", ",", "1",
      "0", "4", "8", "5", "7", "8", ";", "#", "C", "C", "L", "K", "M", "O",
      "D", "E", "=", "1", ";", "+", "C", "G", "D", "C", "O", "N", "T", "=",
      "1", ",", "I", "P", ",", "s", "o", "r", "a", "c", "o", "m", ".", "i",
      "o", ",", "\"", "\"", ",", "1", ",", "1", ";", "+", "C", "G", "A",
      "U", "T", "H", "=", "1", ",", "2", ",", "s", "o", "r", "a", ",", "s",
      "o", "r", "a">>
CMD_SETUP_NVM_LEGACY ==
    <<"A", "T", "#", "P", "O", "R", "T", "C", "F", "G", "=", "8", ";", "A",
      "T", "#", "U", "S", "B", "C", "F", "G", "=", "0", ";", "A", "T", "#",
      "D", "T", "R", "=", "2", ";", "A", "T", "#", "W", "S", "4", "6", "=",
      "2", ";", "A", "T", "#", "N", "B", "2", "E", "N", "A", "=", "0", ";",
      "A", "T", "#", "B", "N", "D", "=", "5", ",", "0", ",", "2", "5", "2",
      "5", "8", "2", "0", "4", "7", ",", "0", ",", "1", "0", "4", "8", "5",
      "7", "8", ";", "#", "C", "C", "L", "K", "M", "O", "D", "E", "=", "1">>
CMD_SETUP_GNSS ==
    <<"A", "T", "$", "G", "P", "S", "C", "F", "G", "=", "2", ",", "0", ";",
      "$", "G", "P", "S", "C", "F", "G", "=", "3", ",", "1", ";", "$", "G",
      "P", "S", "P", "=", "1", ";", "$", "G", "P", "S", "S", "A", "V">>

\* 0x1bc7 and 0x110a
TELIT_VID == 7111
ME910_PID == 4362

\* the ports comports() may list: the modem's AT interface, another
\* interface of the modem, another product of the vendor, a serial adapter
\* of another vendor (0x0403, 0x6001)
PortForms ==
    { [vid |-> TELIT_VID, pid |-> ME910_PID, name |-> NAME_USB2, device |-> DEV_USB2],
      [vid |-> TELIT_VID, pid |-> ME910_PID, name |-> NAME_USB0, device |-> DEV_USB0],
      [vid |-> TELIT_VID, pid |-> 4353, name |-> NAME_USB3, device |-> DEV_USB3],
      [vid |-> 1027, pid |-> 24577, name |-> NAME_USB5, device |-> DEV_USB5] }

MaxPorts == 3

\* what comports() may return
PortLists == UNION {[1..n -> PortForms] : n \in 0..MaxPorts}

\* the condition of the if in the loop over comports()
PortMatches(port, legacy) ==
    /\ port.vid = TELIT_VID
    /\ port.pid = ME910_PID
    /\ legacy => EndsWith(port.name, USB2)

\* the message of the RuntimeError of the loop
DetectMessage(legacy) ==
    IF legacy THEN MSG_COULD_NOT_FIND ELSE MSG_COULD_NOT_DETECT

\* self.chardev before any assignment: the attribute does not exist
NoDevice == <<>>

\* the queries of the with block that ends the constructor
InitCommands(legacy) ==
    IF legacy THEN <<CMD_INIT_LEGACY>> ELSE <<CMD_INIT_PROFILE, CMD_INIT_FLOW>>

\* the command lines of one_time_setup, in the order of its calls
SetupCommands(legacy) ==
    IF legacy THEN <<CMD_SETUP_PROFILE, CMD_SETUP_NVM_LEGACY, CMD_SETUP_GNSS>>
    ELSE <<CMD_SETUP_PROFILE, CMD_SETUP_NVM, CMD_SETUP_GNSS>>

\* what the modem may answer to a configuration command line
SetupAnswers == { <<OK>>, <<ERROR>>, <<INFO_CSQ, OK>> }

\* TelitME910G1() on a host whose ports are listed as ports
init_call(ports, legacy) ==
    /\ NoCallInProgress
    /\ op' = "__init__"
    /\ locals' = [routine |-> "__init__", ports |-> ports, legacy |-> legacy,
                  chardev |-> NoDevice, step |-> 1]
    /\ pc' = "detect"
    /\ UNCHANGED <<tx, response, result, is_open>>
    /\ UNCHANGED routine_unchanged

\* the for loop over comports(): its body leaves the loop in its first
\* pass, by break when the port matches and by raise when it does not (the
\* else belongs to the if); without a port the body never runs
init_detect ==
    /\ op = "__init__"
    /\ pc = "detect"
    /\ IF locals.ports = <<>>
       THEN /\ pc' = "serial"
            /\ UNCHANGED <<locals, result>>
       ELSE LET port == Head(locals.ports)
            IN  IF PortMatches(port, locals.legacy)
                THEN /\ locals' = [locals EXCEPT !.chardev = port.device]
                     /\ pc' = "serial"
                     /\ UNCHANGED result
                ELSE /\ result' = RaisedWith("RuntimeError",
                                             DetectMessage(locals.legacy))
                     /\ pc' = "Done"
                     /\ UNCHANGED locals
    /\ UNCHANGED <<op, tx, response, is_open>>
    /\ UNCHANGED routine_unchanged

\* serial.Serial(port=self.chardev, ...): reading an attribute that was
\* never assigned raises AttributeError; a port object created with a
\* device opens it, which the host may refuse
init_serial ==
    /\ op = "__init__"
    /\ pc = "serial"
    /\ IF locals.chardev = NoDevice
       THEN /\ result' = Raised("AttributeError")
            /\ pc' = "Done"
            /\ UNCHANGED is_open
       ELSE \E opened \in BOOLEAN :
                IF opened
                THEN /\ is_open' = TRUE
                     /\ pc' = "configure"
                     /\ UNCHANGED result
                ELSE /\ result' = Raised("SerialException")
                     /\ pc' = "Done"
                     /\ UNCHANGED is_open
    /\ UNCHANGED <<op, locals, tx, response>>
    /\ UNCHANGED routine_unchanged

\* with self.ser: the queries that configure the link; the block closes
\* the port however it is left
init_configure ==
    /\ op = "__init__"
    /\ pc = "configure"
    /\ LET c == InitCommands(locals.legacy)[locals.step]
           last == locals.step = Len(InitCommands(locals.legacy))
       IN  /\ tx' = Append(tx, CommandLineText(c))
           /\ \E answer \in SetupAnswers :
                LET ended == QueryEnded(c, answer, locals.legacy)
                IN  IF ended.exc # "none"
                    THEN /\ result' = ended
                         /\ pc' = "Done"
                         /\ is_open' = FALSE
                         /\ UNCHANGED locals
                    ELSE IF last
                    THEN /\ result' = Returned("None", <<>>, <<>>)
                         /\ pc' = "Done"
                         /\ is_open' = FALSE
                         /\ UNCHANGED locals
                    ELSE /\ locals' = [locals EXCEPT !.step = @ + 1]
                         /\ UNCHANGED <<pc, result, is_open>>
    /\ UNCHANGED <<op, response>>
    /\ UNCHANGED routine_unchanged

\* one_time_setup(); it neither opens nor closes the port, which its
\* caller has opened or has not
one_time_setup_call(legacy) ==
    /\ NoCallInProgress
    /\ op' = "one_time_setup"
    /\ locals' = [routine |-> "one_time_setup", legacy |-> legacy, step |-> 1]
    /\ \E opened \in BOOLEAN : is_open' = opened
    /\ pc' = "setup"
    /\ UNCHANGED <<tx, response, result>>
    /\ UNCHANGED routine_unchanged

\* the next call of one_time_setup.  src/modules/csq.py calls
\* self.cmd_query(..., silent=True): cmd_query has no parameter silent,
\* and the call raises TypeError before the method is entered.
\* src/csq.py calls self.AT_query(..., silent=True), which writes the
\* line (on a closed port the write raises) and reads the answer.
one_time_setup_query ==
    /\ op = "one_time_setup"
    /\ pc = "setup"
    /\ LET c == SetupCommands(locals.legacy)[locals.step]
           last == locals.step = Len(SetupCommands(locals.legacy))
       IN  IF ~locals.legacy
           THEN /\ result' = Raised("TypeError")
                /\ pc' = "Done"
                /\ UNCHANGED <<tx, locals>>
           ELSE IF ~is_open
           THEN /\ result' = Raised("SerialException")
                /\ pc' = "Done"
                /\ UNCHANGED <<tx, locals>>
           ELSE /\ tx' = Append(tx, CommandLineText(c))
                /\ \E answer \in SetupAnswers :
                     LET ended == ATClassify(c, Wire(answer), TRUE, TRUE)
                     IN  IF ended.exc # "none"
                         THEN /\ result' = ended
                              /\ pc' = "Done"
                              /\ UNCHANGED locals
                         ELSE IF last
                         THEN /\ result' = ended
                              /\ pc' = "Done"
                              /\ UNCHANGED locals
                         ELSE /\ locals' = [locals EXCEPT !.step = @ + 1]
                              /\ UNCHANGED <<pc, result>>
    /\ UNCHANGED <<op, response, is_open>>
    /\ UNCHANGED routine_unchanged

\* the constructor or one_time_setup has ended and the caller goes on
setup_return ==
    /\ pc = "Done"
    /\ op \in {"__init__", "one_time_setup"}
    /\ pc' = "Idle"
    /\ op' = "none"
    /\ locals' = NoLocals
    /\ tx' = <<>>
    /\ result' = Pending
    /\ is_open' = FALSE
    /\ UNCHANGED response
    /\ UNCHANGED routine_unchanged

NextSetup ==
    \/ \E ports \in PortLists, legacy \in BOOLEAN : init_call(ports, legacy)
    \/ init_detect
    \/ init_serial
    \/ init_configure
    \/ \E legacy \in BOOLEAN : one_time_setup_call(legacy)
    \/ one_time_setup_query
    \/ setup_return

SpecSetup == Init /\ [][NextSetup]_vars

(***************************************************************************)
(* Vocabulary of the properties.                                           *)
(***************************************************************************)
\* a transaction of cmd_query or of the deprecated AT_query of
\* src/modules/csq.py is in progress or has ended
IsQuery == op \in {"cmd_query", "AT_query"}

\* the transaction has ended, by return or by exception
Ended == pc = "Done"

Succeeded == Ended /\ result.exc = "none"

NotTerminator(c) == c \notin {CR, LF}

\* a line without its CR and LF characters
TextOf(line) == SelectSeq(line, NotTerminator)

\* cmd_query ended in its AT#HTTPRCV branch: the lines of readlines(5)
\* held the result code
HttpBranchDecided ==
    /\ op = "cmd_query"
    /\ IsHttpRcv(AT_commandline)
    /\ \/ TextOf(Join(confirm_lines)) = OK
       \/ Contains(TextOf(Join(confirm_lines)), ERROR)

\* the lines captured for the command and handed to classification, as
\* they came off the link
Captured ==
    IF op = "cmd_query"
    THEN IF HttpBranchDecided THEN response_lines \o confirm_lines
         ELSE response_lines
    ELSE SplitLines(response)

\* the texts of the lines that are not empty, in order
RECURSIVE NonEmptyTexts(_)
NonEmptyTexts(ls) ==
    IF ls = <<>> THEN <<>>
    ELSE (IF TextOf(Head(ls)) = <<>> THEN <<>> ELSE <<TextOf(Head(ls))>>)
            \o NonEmptyTexts(Tail(ls))

\* the last non-empty captured line, '' when there is none
LastNonEmpty ==
    LET t == NonEmptyTexts(Captured)
    IN  IF t = <<>> THEN <<>> ELSE t[Len(t)]

(***************************************************************************)
(* C1.  With zero bytes from the modem, a query stops waiting once the     *)
(* read timeout has elapsed: a wait loop that has seen nothing arrive is   *)
(* never found to have slept longer than the read timeout plus one poll    *)
(* interval.                                                               *)
(***************************************************************************)
C1_WaitEndsAtTimeout ==
    pc = "AwaitingData" => polls * WaitInterval <= ser_timeout + WaitInterval

(***************************************************************************)
(* C2.  cmd_query and AT_query return normally only if the last non-empty  *)
(* captured line, stripped of CR and LF, is exactly OK.                    *)
(***************************************************************************)
C2_SuccessOnlyOnExactOK ==
    (IsQuery /\ Succeeded) => LastNonEmpty = OK

(***************************************************************************)
(* C3.  Whenever the last non-empty captured line contains ERROR, with any *)
(* number of information lines before it, cmd_query and AT_query raise     *)
(* ATCommandError.                                                         *)
(***************************************************************************)
C3_ErrorLineRaises ==
    (IsQuery /\ Ended /\ Contains(LastNonEmpty, ERROR))
        => result.exc = "ATCommandError"

\* the non-empty captured lines before the last one
InformationLines ==
    LET t == NonEmptyTexts(Captured)
    IN  SubSeq(t, 1, Len(t) - 1)

\* the lines cmd_query returned: the list, or the one string
ReturnedLines ==
    IF result.kind = "list" THEN result.list ELSE <<result.str>>

\* a result code as the data model knows it
IsResultCodeText(t) ==
    \/ t = OK
    \/ Contains(t, ERROR)
    \/ Contains(t, NO_CARRIER)

\* the result-code lines among the captured lines, in order
ResultCodeLines == SelectSeq(NonEmptyTexts(Captured), IsResultCodeText)

C6_NoStaleCaptured ==
    (IsQuery /\ Ended) => stale_captured = 0

(***************************************************************************)
(* C7.  A response that comes in two bursts, information lines first and   *)
(* the result code after a pause shorter than the read timeout, is read to *)
(* its result code: a transaction never ends having captured information  *)
(* lines only while the result code is still on its way and no read has    *)
(* run into the timeout.                                                   *)
(***************************************************************************)
ResultCodeOutstanding ==
    \E i \in 1..Len(SplitLines(inbuf \o wire)) :
        IsResultCodeText(TextOf(SplitLines(inbuf \o wire)[i]))

C7_ReadsUntilResultCode ==
    ~ /\ IsQuery /\ Ended /\ tx # <<>>
      /\ ~read_timed_out
      /\ NonEmptyTexts(Captured) # <<>>
      /\ ResultCodeLines = <<>>
      /\ ResultCodeOutstanding

(***************************************************************************)
(* C10.  A response whose last non-empty line contains NO CARRIER makes    *)
(* cmd_query and AT_query raise ATCommandError.                            *)
(***************************************************************************)
C10_NoCarrierIsDeviceError ==
    (IsQuery /\ Ended /\ Contains(LastNonEmpty, NO_CARRIER))
        => result.exc = "ATCommandError"

(***************************************************************************)
(* C8, as stated.  Every transaction sleeps at least one poll interval     *)
(* between writing the command and reading the response.                   *)
(***************************************************************************)
C8_AtLeastOnePollTick ==
    (IsQuery /\ pc \in {"readlines", "at_read", "confirm"}) => polls >= 1

(***************************************************************************)
(* C8, amended.  A transaction starts to read the response only out of     *)
(* AwaitingData and only when at least one character is waiting; it has    *)
(* slept one poll interval for every check that found nothing, which is    *)
(* no interval at all when characters wait at the first check.             *)
(***************************************************************************)
C8_ReadsOnceBytesWait ==
    [][(IsQuery /\ pc' \in {"readlines", "at_read"} /\ pc \notin {"readlines", "at_read"})
          => (pc = "AwaitingData" /\ in_waiting # 0 /\ polls' = polls)]_vars

\* a transaction reads its response without having slept a poll interval
C8_Witness ==
    /\ IsQuery
    /\ pc \in {"readlines", "at_read"}
    /\ polls = 0

(***************************************************************************)
(* C9, as stated.  When the captured lines hold more than one result-code  *)
(* line, the first of them decides the outcome.                            *)
(***************************************************************************)
C9_FirstResultCodeDecides ==
    (IsQuery /\ Ended /\ Len(ResultCodeLines) > 1)
        => /\ ResultCodeLines[1] = OK => result.exc = "none"
           /\ Contains(ResultCodeLines[1], ERROR) => result.exc = "ATCommandError"

(***************************************************************************)
(* C9, amended.  When the captured lines, framed <CR><LF>text<CR><LF>,     *)
(* hold more than one result-code line and end with one, the last of them  *)
(* decides the outcome (cmd_query; AT_query for a command other than       *)
(* AT#CSURV): the call succeeds when it is OK and raises ATCommandError    *)
(* when it contains ERROR and not the letters OK, whatever result-code     *)
(* lines came before it.                                                   *)
(***************************************************************************)
C9_LastResultCodeDecides ==
    (/\ IsQuery /\ Ended
     /\ op = "AT_query" => ~IsCsurv(AT_commandline)
     /\ Len(ResultCodeLines) > 1
     /\ IsResultCodeText(TextOf(Captured[Len(Captured)])))
        => LET last == TextOf(Captured[Len(Captured)])
           IN  /\ last = OK => result.exc = "none"
               /\ (Contains(last, ERROR) /\ ~Contains(last, OK))
                     => result.exc = "ATCommandError"

\* a call has succeeded on an OK that came after an ERROR line
C9_Witness ==
    /\ IsQuery /\ Ended
    /\ ResultCodeLines = <<ERROR, OK>>
    /\ result.exc = "none"

(***************************************************************************)
(* C11.  Every failure a transaction raises of its own, the device error   *)
(* (ATCommandError) and the missing or unreadable result code (ModemError) *)
(* alike, carries in its message the command line that was sent, between   *)
(* double quotes.                                                          *)
(***************************************************************************)
CarriesCommandText ==
    Contains(result.msg, <<QUOTE>> \o AT_commandline \o <<QUOTE>>)

C11_FailureCarriesCommand ==
    (IsQuery /\ Ended /\ result.exc \in {"ATCommandError", "ModemError"})
        => CarriesCommandText

(***************************************************************************)
(* C12.  One call of cmd_query or AT_query writes the command line         *)
(* followed by exactly one CR, exactly once: nothing is written before the *)
(* write step, and from the write step on, whatever the outcome, the       *)
(* modem has been sent that one text and nothing else.                     *)
(***************************************************************************)
C12_WritesCommandOnce ==
    IsQuery => IF pc = "presleep" THEN tx = <<>>
               ELSE tx = <<AT_commandline \o <<CR>>>>

\* a call has ended in a device error, the command written once
C12_Witness ==
    /\ IsQuery /\ Ended
    /\ result.exc = "ATCommandError"
    /\ Len(tx) = 1

Reclassified(c, lines, confirm, multiline) ==
    IF IsHttpRcv(c) /\ HttpRcvClassify(c, lines, confirm) # Pending
    THEN HttpRcvClassify(c, lines, confirm)
    ELSE CmdClassify(c, lines, multiline)

C15_NoFixTakesNoFixBranch ==
    (op = "parse_gpsacp" /\ Ended /\ response \in NoFixSentences)
        => /\ result.warned
           /\ result.exc = "none" => (result.lat.na /\ result.lon.na)

(***************************************************************************)
(* C16.  For a fix sentence with latitude ddmm.mmmmH and longitude         *)
(* dddmm.mmmmH parse_gpsacp returns latitude dd + mm/60 + mmmm/600000,     *)
(* negated exactly when H is S, and longitude ddd + mm/60 + mmmm/600000,   *)
(* negated exactly when H is W; 4121.1234N gives 24811234/600000 (about    *)
(* 41.352057) and 07105.5678W gives -42655678/600000 (about -71.092797).   *)
(***************************************************************************)
\* d + m/60 + f/600000, as a number of 1/600000 degree
SixHundredThousandths(d, m, f) == d * 600000 + m * 10000 + f

C16_DecimalDegrees ==
    \A f \in GnssFixes :
        (op = "parse_gpsacp" /\ Ended /\ response = GpsacpSentence(f))
            => /\ result.exc = "none"
               /\ ~result.lat.na /\ ~result.lon.na
               /\ result.lat.num =
                    (IF f[2][4] = "S" THEN -1 ELSE 1)
                        * SixHundredThousandths(f[2][1], f[2][2], f[2][3])
               /\ result.lon.num =
                    (IF f[3][4] = "W" THEN -1 ELSE 1)
                        * SixHundredThousandths(f[3][1], f[3][2], f[3][3])
               /\ f[2] = <<41, 21, 1234, "N">> => result.lat.num = 24811234
               /\ f[3] = <<71, 5, 5678, "W">> => result.lon.num = 0 - 42655678

\* a fix south of the equator and west of Greenwich has been decoded
C16_Witness ==
    /\ op = "parse_gpsacp" /\ Ended /\ result.exc = "none"
    /\ ~result.lat.na /\ result.lat.num < 0
    /\ ~result.lon.na /\ result.lon.num < 0

(***************************************************************************)
(* C17.  For a fix sentence parse_gpsacp takes the time from the leading   *)
(* hhmmss field and the date from the ddmmyy field, as 20yy-mm-dd: the     *)
(* time field 023000.000 with the date field 010625 gives date 2025-06-01  *)
(* and time 02:30:00.                                                      *)
(***************************************************************************)
FIELD_023000 ==
    <<"0", "2", "3", "0", "0", "0", ".", "0", "0", "0", ",">>
FIELD_010625 ==
    <<",", "0", "1", "0", "6", "2", "5", ",">>
DATE_2025_06_01 ==
    <<"2", "0", "2", "5", "-", "0", "6", "-", "0", "1">>
TIME_02_30_00 ==
    <<"0", "2", ":", "3", "0", ":", "0", "0">>

C17_DateAndTimeOfFix ==
    \A f \in GnssFixes :
        (op = "parse_gpsacp" /\ Ended /\ response = GpsacpSentence(f))
            => /\ result.exc = "none"
               /\ result.date = <<"2", "0">> \o Pad2(f[4][3]) \o <<"-">>
                                    \o Pad2(f[4][2]) \o <<"-">> \o Pad2(f[4][1])
               /\ result.time = Pad2(f[1][1]) \o <<":">> \o Pad2(f[1][2])
                                    \o <<":">> \o Pad2(f[1][3])
               /\ (/\ StartsWith(RemoveAll(response, GPSACP_PREFIX), FIELD_023000)
                   /\ Contains(response, FIELD_010625))
                    => (result.date = DATE_2025_06_01 /\ result.time = TIME_02_30_00)

\* the sentence of 1 June 2025, 02:30:00 has been decoded
C17_Witness ==
    /\ op = "parse_gpsacp" /\ Ended
    /\ StartsWith(RemoveAll(response, GPSACP_PREFIX), FIELD_023000)
    /\ Contains(response, FIELD_010625)
    /\ result.date = DATE_2025_06_01

(***************************************************************************)
(* The operator name and the access technology a decoder of +COPS ended    *)
(* with.                                                                   *)
(***************************************************************************)
DecodedOperator ==
    IF op = "sim_test_cops" THEN result.cops_oper
    ELSE result.operator_alphanumeric_name

\* the decoder ended with LTE-M as access technology
DecodedLteM ==
    IF op = "sim_test_cops"
    THEN result.printed # <<>>
            /\ Contains(result.printed[Len(result.printed)], TEXT_ON_MODE \o TEXT_CAT_M1)
    ELSE result.lte_ue_category = TEXT_M1

(***************************************************************************)
(* C18, as stated.  Decoding +COPS: 0,0,"Verizon",8 yields mode automatic, *)
(* the operator name Verizon without quotes and access technology LTE-M.   *)
(***************************************************************************)
C18_DecodesOperator ==
    (op \in CopsDecoders /\ Ended /\ response = CopsReply(<<"0">>, <<"0">>, VERIZON, <<"8">>))
        => /\ result.exc = "none"
           /\ DecodedOperator = VERIZON
           /\ DecodedLteM
           /\ op = "sim_test_cops" => result.printed[1] = TEXT_AUTOMATIC

(***************************************************************************)
(* C18, amended.  For +COPS: 0,0,"Verizon",8 sim_test prints "Automatic    *)
(* operator selection" and names the operator as the reply has it, inside  *)
(* its double quotes, on mode CAT M-1; it reads the format field, 0, and   *)
(* does not decode it.  The statistics scripts take the name without the   *)
(* quotes, Verizon, and the category M1.  In sim_test access technology 0  *)
(* is GSM, 8 is CAT M-1 and 9 is NB-IoT.                                   *)
(***************************************************************************)
LINE_VERIZON_CAT_M1 ==
    <<"S", "e", "l", "e", "c", "t", "e", "d", " ", "o", "p", "e", "r", "a",
      "t", "o", "r", " ", "i", "s", " ", "\"", "V", "e", "r", "i", "z",
      "o", "n", "\"", " ", "o", "n", " ", "m", "o", "d", "e", " ", "C",
      "A", "T", " ", "M", "-", "1">>

C18_DecodesOperatorAsRead ==
    /\ (op = "sim_test_cops" /\ Ended
            /\ response = CopsReply(<<"0">>, <<"0">>, VERIZON, <<"8">>))
          => /\ result.exc = "none"
             /\ result.printed = <<TEXT_AUTOMATIC, LINE_VERIZON_CAT_M1>>
             /\ result.cops_format = <<"0">>
    /\ (op = "rx_stats_cops" /\ Ended
            /\ response = CopsReply(<<"0">>, <<"0">>, VERIZON, <<"8">>))
          => /\ result.exc = "none"
             /\ result.operator_alphanumeric_name = VERIZON
             /\ result.lte_ue_category = TEXT_M1
    /\ \A m \in CopsModes, f \in CopsFormats :
          (op = "sim_test_cops" /\ Ended)
            => /\ response = CopsReply(m, f, VERIZON, <<"0">>)
                    => Contains(result.printed[Len(result.printed)],
                                TEXT_ON_MODE \o TEXT_GSM)
               /\ response = CopsReply(m, f, VERIZON, <<"9">>)
                    => Contains(result.printed[Len(result.printed)],
                                TEXT_ON_MODE \o TEXT_NB_IOT)

\* sim_test has decoded the reply that names Verizon on LTE-M
C18_Witness ==
    /\ op = "sim_test_cops" /\ Ended
    /\ response = CopsReply(<<"0">>, <<"0">>, VERIZON, <<"8">>)
    /\ result.exc = "none"
    /\ Len(result.printed) = 2

(***************************************************************************)
(* C19.  When the operator name in a +COPS reply is a double-quoted string *)
(* that holds a comma, the decoder keeps the comma inside the name and     *)
(* reads the access technology from the field after the closing quote:     *)
(* +COPS: 0,0,"AT&T Mobile, Inc",8 gives the name AT&T Mobile, Inc and     *)
(* access technology 8.                                                    *)
(***************************************************************************)
C19_QuotedCommaKept ==
    (op \in CopsDecoders /\ Ended
        /\ response = CopsReply(<<"0">>, <<"0">>, ATT_MOBILE_INC, <<"8">>))
        => /\ result.exc = "none"
           /\ Strip(DecodedOperator, {QUOTE}) = ATT_MOBILE_INC
           /\ DecodedLteM

(***************************************************************************)
(* C20.  Every decode of a clock response +CCLK: "yy/MM/dd,HH:mm:ss..."    *)
(* yields the calendar year 2000+yy, and month, day, hour, minute and      *)
(* second from their positions.                                            *)
(***************************************************************************)
\* the calendar date and the time of day a clock decoder ended with
DecodedClock ==
    IF op = "parse_cclk"
    THEN <<IntOf(Slice(result.date, 0, 4)), IntOf(Slice(result.date, 5, 7)),
           IntOf(Slice(result.date, 8, 10)), IntOf(Slice(result.time, 0, 2)),
           IntOf(Slice(result.time, 3, 5)), IntOf(Slice(result.time, 6, 8))>>
    ELSE <<result.year, result.month, result.day,
           result.hour, result.minute, result.second>>

C20_YearIs2000PlusYY ==
    \A r \in ClockReadings :
        (op \in ClockDecoders /\ Ended /\ response = CclkResponse(r))
            => /\ result.exc = "none"
               /\ DecodedClock = <<2000 + r[1][1], r[1][2], r[1][3],
                                   r[2][1], r[2][2], r[2][3]>>

(***************************************************************************)
(* C21.  Decoding an operator-selection reply whose access technology is   *)
(* not one of 0, 8, 9 ends in an explicit parse failure, an exception the  *)
(* decoder raises about the field; it never goes on with the access        *)
(* technology left undefined or defaulted.                                 *)
(***************************************************************************)
\* the exceptions the program raises with a raise statement
ExplicitFailures ==
    {"RuntimeError", "ValueError", "ModemError", "ATCommandError"}

C21_UnknownActIsParseFailure ==
    \A m \in CopsModes, f \in CopsFormats, o \in CopsOperators,
       a \in CopsActs \ {<<"0">>, <<"8">>, <<"9">>} :
        (op \in CopsDecoders /\ Ended /\ response = CopsReply(m, f, o, a))
            => result.exc \in ExplicitFailures

(***************************************************************************)
(* C30.  The silent option of AT_query changes only the returned value:    *)
(* with silent set a successful command returns None even when the modem   *)
(* sent an information line, and a command that ends in ERROR or without   *)
(* a result code raises the same exception with the same message as it     *)
(* does without silent.                                                    *)
(***************************************************************************)
\* AT_query has run to its classification (the first version leaves
\* earlier when a timeout override is given)
ATQueryClassified ==
    /\ op \in {"AT_query", "AT_query_legacy"}
    /\ Ended
    /\ ~(op = "AT_query_legacy" /\ timeout # 0)

\* how the same response ends a call made without silent
WithoutSilent ==
    ATClassify(AT_commandline, response, FALSE, op = "AT_query_legacy")

C30_SilentChangesOnlyTheValue ==
    ATQueryClassified
        => /\ result.exc = WithoutSilent.exc
           /\ result.msg = WithoutSilent.msg
           /\ (flag /\ result.exc = "none") => result.kind = "None"
           /\ ~flag => result = WithoutSilent

\* a silent call has succeeded on a response that held an information line
C30_Witness ==
    /\ ATQueryClassified
    /\ flag
    /\ response = Wire(<<INFO_CSQ, OK>>)
    /\ result.exc = "none"
    /\ WithoutSilent.kind = "str"

(***************************************************************************)
(* C25.  For an AT#HTTPRCV command, when the read of the final             *)
(* confirmation yields neither OK nor ERROR, cmd_query does not report     *)
(* success and returns no part of the HTTP body.                           *)
(***************************************************************************)
\* ''.join(self.sio.readlines(5)).replace('\r\n', '') as the call left it
ConfirmationRead == RemoveAll(Join(confirm_lines), CRLF)

\* cmd_query for AT#HTTPRCV has ended and its read of the confirmation
\* held neither OK nor ERROR
ConfirmationMissing ==
    /\ op = "cmd_query"
    /\ IsHttpRcv(AT_commandline)
    /\ Ended
    /\ ConfirmationRead # OK
    /\ ~Contains(ConfirmationRead, ERROR)

C25_NoConfirmationNoSuccess ==
    ConfirmationMissing => result.exc # "none"

(***************************************************************************)
(* C28.  For an AT#CSURV command AT_query returns the list of the operator *)
(* entries that lie between the "Network survey started" and the "Network  *)
(* survey ended" lines, in scan order, and None when the survey found no   *)
(* operator; a survey that ends in ERROR raises the command error.         *)
(***************************************************************************)
\* the operator entries of a survey, in scan order
SurveyEntries(survey) == SubSeq(survey, 2, Len(survey) - 2)

\* AT_query has classified the response to a survey command, silent unset
SurveyClassified ==
    /\ ATQueryClassified
    /\ IsCsurv(AT_commandline)
    /\ ~flag

C28_SurveyReturnsOperators ==
    /\ \A survey \in CsurvResponses :
          (SurveyClassified /\ response = Wire(survey))
             => result = IF SurveyEntries(survey) # <<>>
                         THEN Returned("list", <<>>, SurveyEntries(survey))
                         ELSE Returned("None", <<>>, <<>>)
    /\ (SurveyClassified /\ response = Wire(<<ERROR>>))
          => result.exc \in {"ATCommandError", "RuntimeError"}

(***************************************************************************)
(* C22.  await_gnss(tries, interval) sends the AT$GPSACP fix query at most *)
(* tries times before it gives up.                                         *)
(***************************************************************************)
IsGpsacpWrite(text) == text = CommandLineText(CMD_GPSACP)

\* the AT$GPSACP queries sent so far
GnssQueriesSent == Len(SelectSeq(tx, IsGpsacpWrite))

C22_AtMostTriesQueries ==
    op = "await_gnss" => GnssQueriesSent <= locals.tries

(***************************************************************************)
(* C23.  await_gnss returns normally only if its most recent AT$GPSACP     *)
(* query returned a sentence other than the two no-fix forms; when every   *)
(* query of the budget, tries of them, has reported no fix it raises a     *)
(* failure whose message states the attempt count.                         *)
(***************************************************************************)
\* await_gnss has ended of its own, not through a query that failed, and
\* every query of the budget had reported no fix: a query beyond the
\* budget was made, or the last one of the budget is the most recent
BudgetSpentWithoutFix ==
    /\ op = "await_gnss"
    /\ Ended
    /\ result.exc \in {"none", "RuntimeWarning"}
    /\ \/ GnssQueriesSent > locals.tries
       \/ GnssQueriesSent = locals.tries /\ response \in NoFixForms

C23_ReturnsOnFixRaisesOnBudget ==
    /\ (op = "await_gnss" /\ Succeeded)
          => /\ GnssQueriesSent > 0
             /\ response \notin NoFixForms
    /\ BudgetSpentWithoutFix
          => /\ result.exc = "RuntimeWarning"
             /\ Contains(result.msg, DecimalStr(locals.tries) \o MSG_TRIES)

(***************************************************************************)
(* C24.  In http_send the request body is written to the modem only after  *)
(* the exact prompt <CR><LF>>>> has been read in reply to AT#HTTPSND; if   *)
(* anything else is read, ModemError is raised and the body is never       *)
(* written.                                                                *)
(***************************************************************************)
\* http_send has run, or is running, on the connection
HttpSendEntered == locals.routine = "http_send"

\* the request body has been written: it is the second write of http_send
BodyWritten == HttpSendEntered /\ Len(tx) >= 2

\* self.sio.read(5) has returned
PromptReadEnded ==
    /\ HttpSendEntered
    /\ Len(tx) >= 1
    /\ ~(op = "http_send" /\ pc \in {"AwaitingData", "read_prompt"} /\ Len(tx) = 1)

C24_BodyOnlyAfterPrompt ==
    /\ BodyWritten
          => /\ locals.ready_for_data_entry = DATA_PROMPT
             /\ tx = <<CommandLineText(AT_commandline), locals.data>>
    /\ (PromptReadEnded /\ locals.ready_for_data_entry # DATA_PROMPT)
          => /\ ~BodyWritten
             /\ op = "http_send" => result.exc = "ModemError"

\* the body has been written after the prompt was read
C24_Witness ==
    /\ op = "http_send"
    /\ BodyWritten
    /\ locals.ready_for_data_entry = DATA_PROMPT
    /\ tx[2] = JSON_DATA

(***************************************************************************)
(* C27.  For a POST request (the default request_type) http_send puts the  *)
(* caller's post_param content type into the AT#HTTPSND command line it    *)
(* sends.                                                                  *)
(***************************************************************************)
C27_PostCarriesContentType ==
    (HttpSendEntered /\ Upper(locals.request_type) = POST /\ Len(tx) >= 1)
        => EndsWith(tx[1], <<",">> \o locals.post_param \o <<CR>>)

(***************************************************************************)
(* C26.  At any moment at most one operation among cmd_query, AT_query,    *)
(* http_send and await_urc is in flight on the connection: a method is     *)
(* entered only when no other is being executed, and await_urc never reads *)
(* while a command that has been written is not yet classified.            *)
(***************************************************************************)
\* a command has been written and its outcome is not yet known
CommandUnclassified == tx # <<>> /\ result.exc = "pending"

\* await_urc is inside its readlines
UrcReading == op = "await_urc" /\ pc = "urc_readlines"

LastPost == posts[Len(posts)]

\* every element of the list ls is an element of the list ms
AllIn(ls, ms) == \A k \in 1..Len(ls) : ls[k] \in Range(ms)

\* the step deletes the file n
Deletes(n) == n \in DOMAIN files /\ n \notin DOMAIN files'

\* a file goes only in the removal that follows a successful request of
\* the same cycle, whose batch held the file's records
DeletionFollowsUpload ==
    \A n \in FileNames :
        Deletes(n)
            => /\ pc = "remove"
               /\ locals.success
               /\ posts # <<>>
               /\ LastPost.success
               /\ LastPost.batch = locals.all_vehicle_records
               /\ n \in Range(LastPost.data_files)
               /\ AllIn(parse_device_file(files[n]), LastPost.batch)

\* the files of a failed request are still there, and the request after
\* it carries them and their records again
FailedUploadIsRepeated ==
    /\ (posts # <<>> /\ ~LastPost.success)
          => \A n \in Range(LastPost.data_files) : n \in DOMAIN files
    /\ \A k \in 1..(Len(posts) - 1) :
          ~posts[k].success
             => /\ AllIn(posts[k].data_files, posts[k + 1].data_files)
                /\ AllIn(posts[k].batch, posts[k + 1].batch)

C29_DeleteOnlyAfterUpload ==
    /\ [][DeletionFollowsUpload]_vars
    /\ []FailedUploadIsRepeated

\* a first request failed, the next one carried the same file and
\* succeeded, and the file is gone
C29_Witness ==
    /\ Len(posts) = 2
    /\ ~posts[1].success
    /\ posts[2].success
    /\ posts[1].batch # <<>>
    /\ \E n \in Range(posts[1].data_files) : n \notin DOMAIN files

(***************************************************************************)
(* C31.  For any arrangement of blank lines among the lines read (two      *)
(* blank lines next to each other, blank lines after the result code),     *)
(* the cleaning of cmd_query removes every blank line: no cleaned line is  *)
(* the empty string, the line popped as result code is the last non-empty  *)
(* line read, and the payload returned holds no empty string.              *)
(***************************************************************************)
C31_CleaningRemovesEveryBlankLine ==
    (op = "cmd_query" /\ Ended /\ NonEmptyTexts(response_lines) # <<>>)
        => LET cleaned == CleanLines(response_lines)
           IN  /\ \A i \in 1..Len(cleaned) : cleaned[i] # <<>>
               /\ Pop(cleaned) = LastNonEmpty
               /\ result.kind = "list"
                    => \A i \in 1..Len(result.list) : result.list[i] # <<>>

(***************************************************************************)
(* C32.  After cmd_query or await_urc has finished, by return or by        *)
(* exception, the read timeout of the serial handle is the one it had      *)
(* before the call: with a timeout override given, on the AT#HTTPRCV path, *)
(* on the device-error path, and for a URC wait that read fewer than two   *)
(* lines.                                                                  *)
(***************************************************************************)
\* the call saved the read timeout it found in old_timeout and has not
\* saved another value over it
SavedCallersTimeout ==
    \/ op = "await_urc"
    \/ op = "cmd_query" /\ timeout # 0 /\ ~IsHttpRcv(AT_commandline)
    \/ op = "cmd_query" /\ timeout = 0 /\ IsHttpRcv(AT_commandline)

C32_TimeoutRestored ==
    (Ended /\ SavedCallersTimeout) => ser_timeout = old_timeout

(***************************************************************************)
(* C33.  When a query is given a read-timeout override (cmd_query and      *)
(* AT_query of src/modules/csq.py, AT_query of src/csq.py, as              *)
(* diagnostic_test calls them for AT+COPS=?), the command line is still    *)
(* written to the modem, and the override is the read timeout in force     *)
(* while the response is awaited and read.                                 *)
(***************************************************************************)
\* a query method of either version of the class is in progress or has ended
IsAnyQuery == op \in {"cmd_query", "AT_query", "AT_query_legacy"}

\* the call waits for the response or reads it
AwaitsOrReads == pc \in {"AwaitingData", "readlines", "at_read"}

C33_OverrideInForce ==
    (IsAnyQuery /\ timeout # 0)
        => /\ AwaitsOrReads => ser_timeout = timeout
           /\ Ended => tx = <<CommandLineText(AT_commandline)>>

(***************************************************************************)
(* C34.  After a routine that uses the port (self_test, sim_test,          *)
(* signal_test, await_gnss, diagnostic_test) has finished, normally or     *)
(* because a transaction raised, the serial port is closed, and a routine  *)
(* entered later does not fail to open it.                                 *)
(***************************************************************************)
C34_PortClosedAfterRoutine ==
    (op \in Routines /\ Ended)
        => ~is_open /\ result.exc # "SerialException"

(***************************************************************************)
(* C35.  When no URC arrives within the timeout of await_urc, so that      *)
(* nothing is read from the connection, await_urc returns the empty        *)
(* string (after its ModemWarning) and does not raise.                     *)
(***************************************************************************)
C35_NoUrcReturnsEmpty ==
    (op = "await_urc" /\ Ended /\ response_lines = <<>>)
        => result = Returned("str", <<>>, <<>>)

(***************************************************************************)
(* C36.  http_send returns normally only if the prompt was read, then the  *)
(* body was written exactly once, then a line exactly equal to OK was      *)
(* read.  As first stated, it raises ModemError, ATCommandError or         *)
(* SerialException in every other case in which it ends.  As the code has  *)
(* it, a request type that is neither POST nor PUT is refused with a       *)
(* RuntimeError before anything is written, and the three exceptions are   *)
(* those of every other case.                                              *)
(***************************************************************************)
\* http_send has ended, by return or by exception
HttpSendEnded == op = "http_send" /\ Ended

\* the prompt was read, the command line and then the body were written,
\* each once, and a line read after that is exactly OK
PromptBodyOk ==
    /\ locals.ready_for_data_entry = DATA_PROMPT
    /\ tx = <<CommandLineText(AT_commandline), locals.data>>
    /\ \E k \in 1..Len(confirm_lines) : TextOf(confirm_lines[k]) = OK

\* the exceptions a caller of http_send is told to expect
TransferErrors == {"ModemError", "ATCommandError", "SerialException"}

\* the first statement
C36_ReturnsOnlyAfterOk ==
    HttpSendEnded
        => \/ result.exc = "none" /\ PromptBodyOk
           \/ result.exc \in TransferErrors

\* the statement with the refusal of the request type
C36_ReturnsOnlyAfterOkOrRefuses ==
    HttpSendEnded
        => \/ result.exc = "none" /\ PromptBodyOk
           \/ result.exc \in TransferErrors /\ locals.command # <<>>
           \/ /\ result.exc = "RuntimeError"
              /\ Upper(locals.request_type) \notin {POST, PUT}
              /\ tx = <<>>

\* http_send has returned after the prompt, the body and the line OK
C36_Witness ==
    /\ HttpSendEnded
    /\ result.exc = "none"
    /\ PromptBodyOk
    /\ confirm_lines = <<CRLF, OK \o CRLF>>

(***************************************************************************)
(* C37.  In the upload loop, with the mount present and uploads that       *)
(* succeed in the end, every data file found on the mount is eventually    *)
(* deleted, a file from which no record could be parsed included: no file  *)
(* is parsed again for ever.  (The behaviours followed end with the last   *)
(* request they have room for.)                                            *)
(***************************************************************************)
\* the names list_data_files takes for data files
DataFileNames == Range(list_data_files(FileNames))

C37_EveryFileEventuallyDeleted ==
    \A n \in DataFileNames :
        (n \in DOMAIN files) ~> (n \notin DOMAIN files \/ Len(posts) = MaxPosts)

(***************************************************************************)
(* C38.  The constructor selects the modem's serial device whenever one of *)
(* the enumerated ports matches the Telit vendor and product ID, whatever  *)
(* its place in the enumeration, and raises the RuntimeError of the        *)
(* detection exactly when no enumerated port matches, the empty            *)
(* enumeration included.                                                   *)
(***************************************************************************)
\* the ports of the enumeration that the constructor's condition accepts
MatchingDevices ==
    {locals.ports[k].device : k \in {j \in 1..Len(locals.ports) :
                                   PortMatches(locals.ports[j], locals.legacy)}}

\* the loop over the ports is over
DetectionOver == op = "__init__" /\ pc # "detect"

DetectionRaised ==
    result = RaisedWith("RuntimeError", DetectMessage(locals.legacy))

C38_SelectsAnyMatchingPort ==
    DetectionOver =>
        /\ (MatchingDevices # {}) => (locals.chardev \in MatchingDevices)
        /\ DetectionRaised <=> (MatchingDevices = {})

(***************************************************************************)
(* C39.  In a cycle of the sensor logger the wait for the #HTTPRING URC    *)
(* starts only after http_send has returned normally in that cycle: a      *)
(* cycle whose http_send raised goes on without the URC wait.              *)
(***************************************************************************)
\* the script calls await_urc after the http_send of its cycle
UrcWaitStarts == op = "http_send" /\ op' = "await_urc"

C39_UrcWaitOnlyAfterSuccess ==
    [][UrcWaitStarts => result.exc = "none"]_vars

(***************************************************************************)
(* C40.  one_time_setup, run with the port open, sends its three           *)
(* configuration command lines in order (the profile settings saved with   *)
(* &W0, the non-volatile settings, the GNSS settings saved with $GPSSAV),  *)
(* each as one transaction whose payload is not handed back, and stops at  *)
(* the first transaction that ends in a device error.                      *)
(***************************************************************************)
\* tx holds the first command lines of one_time_setup, in their order
SentInOrder ==
    /\ Len(tx) \in 1..Len(SetupCommands(locals.legacy))
    /\ \A k \in 1..Len(tx) :
          tx[k] = CommandLineText(SetupCommands(locals.legacy)[k])

\* the exceptions the two versions raise on an error result code
DeviceErrors == {"ATCommandError", "RuntimeError"}

C40_SetupSendsInOrder ==
    (op = "one_time_setup" /\ Ended /\ is_open) =>
        /\ SentInOrder
        /\ \/ /\ result = Returned("None", <<>>, <<>>)
              /\ Len(tx) = Len(SetupCommands(locals.legacy))
           \/ result.exc \in DeviceErrors

====
